---- MODULE Spec2Model ----
(***************************************************************************)
(* Model of the decision-and-execution core of the trading bot:           *)
(*   - TrailingStopLoss      (utils/trading/trailing_stop.py)             *)
(*   - AdaptiveStopLoss      (utils/trading/adaptive_stoploss.py)         *)
(*   - TrailingBuyRsi        (utils/trading/trailing_buy.py)              *)
(*   - LimitOrderManager, PositionManager, TradeManager, PositionTracker  *)
(*     and the market-analysis cycle of main.py.                          *)
(*                                                                         *)
(* Prices are integers.  Percentages are carried in hundredths of a       *)
(* percent (0.20 % = 20) and every comparison of the source is done by    *)
(* cross-multiplication, so the arithmetic is exact.                      *)
(***************************************************************************)
EXTENDS Integers, Sequences, FiniteSets, TLC

VARIABLES
    tsl,            \* the TrailingStopLoss instance (entry_price, highest_price, ...)
    tsl_stop,       \* last value of the local stop_price of update(), x10000; -1 = never computed
    tsl_ret,        \* last value returned by update(), x10000; -1 = None
    tsl_price,      \* history: current_price of the last update() call, where a specification
                    \* records it; -1 = none
    asl,            \* the AdaptiveStopLoss instance
    asl_ret,        \* last value returned by AdaptiveStopLoss.update
    asl_in,         \* history: get_atr() and last_price of the last AdaptiveStopLoss.update call
    now,            \* wall clock (seconds), time.time()
    stack,          \* per task, the stack of coroutine frames (innermost first)
    locks,          \* PositionManager._locks: per symbol, the task inside `async with lock`
    lom,            \* the two LimitOrderManager instances: "buy" (PositionManager), "sell" (TradeManager)
    exchange,       \* the orders created at the exchange, by id: symbol, side, status, position sold,
                    \* attempt number, and whether a cancel_order of the manager went through (mgr)
    expired,        \* orders whose local timeout has elapsed
    watcher,        \* sell orders whose _sell_order_timeout_watcher is still asleep
    pf,             \* PortfolioManager: positions, trailing_stops, trailing_stop_paliers, trade_history
    pending_orders, \* PositionManager.pending_orders (its keys)
    md,             \* market_data[symbol]: trailing_buy_rsi and the confirmation counters
    cb_fill,        \* history: how many times the fill callback of an order was invoked
    cb_timeout,     \* history: how many times the timeout callback of an order was invoked
    pos_deleted,    \* history: positions deleted by the buy timeout callback
    buy_fill_post,  \* history: what the last buy-fill callback with valid data left behind
    exhaust_post,   \* history: the detectors as the exhausted buy retries left them
    can_open_post,  \* history: the last can_open_position call, its state and its result
    open_post,      \* history: how the last open_position call ended, where a specification
                    \* records it (observe)
    observe,        \* whether this specification records open_post
    boot,           \* start-up: whether MarketAnalyzer() was built or raised, and whether a
                    \* TrailingStopLoss was built, where a specification follows the start-up
    scans,          \* market-analysis cycles started so far, where a specification bounds them
    cfg,            \* Config, as far as the entry detector reads it: the tiers of
                    \* TRAILING_BUY_RSI_LEVELS_NEUTRAL and DOUBLE_CONFIRMATION_TICKS
    gate,           \* history: the values fed to the tick counting one by one, each with
                    \* whether the confirmation was reached, where a specification records it
    tb_call,        \* history: the last call made on the detector of symbol 1 alone (its
                    \* arguments and result) and the values fed since its last full reset
    sell_size,      \* history: the held quantity, price and exchange minimum of the last
                    \* sizing of a sell order on its own, and what it came to
    io              \* one provider call on its own: the cycle that makes it, get_atr or an
                    \* exchange call under retry_operation, its attempts, the provider, and
                    \* the runs of another periodic driver

varsTSL == <<tsl, tsl_stop, tsl_ret, tsl_price>>
varsASL == <<asl, asl_ret, asl_in, now>>
engineVars == <<tsl, tsl_stop, tsl_ret, tsl_price, asl, asl_ret, asl_in, now>>
cfgVars == <<cfg, observe, boot, gate, tb_call, sell_size, io>>
pmVars == <<pf, pending_orders, md>>
histVars == <<cb_fill, cb_timeout, pos_deleted, buy_fill_post, exhaust_post,
              can_open_post, open_post, scans>>
sysVars == <<stack, locks, lom, exchange, expired, watcher,
             pf, pending_orders, md,
             cb_fill, cb_timeout, pos_deleted, buy_fill_post, exhaust_post,
             can_open_post, open_post, scans, cfg, observe, boot, gate, tb_call, sell_size, io>>

Max(a, b) == IF a >= b THEN a ELSE b

None == -1

(***************************************************************************)
(* TrailingStopLoss                                                        *)
(***************************************************************************)

\* Bounds of the price inputs fed to TrailingStopLoss.update, around the entry price.
PriceUp == 170
PriceDown == 3

\* Entry prices tried (one unit of price is 0.01 % of 10000).
EntryPrices == {10000, 2500}

Scale == 10000

\* Config.TRAILING_STOP_LEVELS, trigger/stop in hundredths of a percent, in file order.
TRAILING_STOP_LEVELS ==
    << [trigger |-> 20,  stop |-> 12,  immediate |-> TRUE],
       [trigger |-> 25,  stop |-> 20,  immediate |-> TRUE],
       [trigger |-> 40,  stop |-> 25,  immediate |-> TRUE],
       [trigger |-> 50,  stop |-> 40,  immediate |-> TRUE],
       [trigger |-> 60,  stop |-> 50,  immediate |-> TRUE],
       [trigger |-> 80,  stop |-> 60,  immediate |-> TRUE],
       [trigger |-> 100, stop |-> 80,  immediate |-> TRUE],
       [trigger |-> 85,  stop |-> 70,  immediate |-> TRUE],
       [trigger |-> 100, stop |-> 85,  immediate |-> TRUE],
       [trigger |-> 120, stop |-> 100, immediate |-> TRUE],
       [trigger |-> 140, stop |-> 120, immediate |-> TRUE],
       [trigger |-> 160, stop |-> 140, immediate |-> TRUE] >>

NoLevel == 0

\* TrailingStopLoss.__init__: highest_price = entry_price, no level, highest profit 0.0.
\* highest_profit is the numerator of highest_profit_percentage over entry_price,
\* in hundredths of a percent: pct = highest_profit / entry_price.
TSLNew(entry) ==
    [entry_price |-> entry, highest_price |-> entry, current_level |-> NoLevel,
     highest_profit |-> 0, levels |-> TRAILING_STOP_LEVELS]

\* _calculate_price_change: ((p - entry) / entry) * 100, as numerator over entry.
CalculatePriceChange(t, p) == (p - t.entry_price) * Scale

\* stop_level <= price_change < trigger_level for level i
InWindow(t, i, pc) ==
    /\ t.levels[i].stop * t.entry_price <= pc
    /\ pc < t.levels[i].trigger * t.entry_price

\* _get_applicable_level without the rule for a profit above the last trigger.
GetApplicableLevelNoTop(t, pc) ==
    LET n == Len(t.levels) IN
    IF t.current_level # NoLevel /\ pc < t.highest_profit THEN t.current_level
    ELSE IF \E i \in 1..n : InWindow(t, i, pc)
         THEN CHOOSE i \in 1..n : InWindow(t, i, pc) /\ \A j \in 1..(i-1) : ~InWindow(t, j, pc)
         ELSE NoLevel

\* _get_applicable_level(price_change): index of the selected level, NoLevel if none.
GetApplicableLevel(t, pc) ==
    LET n == Len(t.levels) IN
    IF t.current_level # NoLevel /\ pc < t.highest_profit THEN t.current_level
    ELSE IF pc >= t.levels[n].trigger * t.entry_price THEN n
    ELSE IF \E i \in 1..n : InWindow(t, i, pc)
         THEN CHOOSE i \in 1..n : InWindow(t, i, pc) /\ \A j \in 1..(i-1) : ~InWindow(t, j, pc)
         ELSE NoLevel

\* A stop computed from the trailing offset alone, without the floor of the tier.
TSLStopPriceNoFloor(t, lv) ==
    t.highest_price * (Scale - (t.levels[lv].trigger - t.levels[lv].stop))

\* stop_price = max(trailing_stop_price, min_stop_price), x10000.
TSLStopPrice(t, lv) ==
    Max(t.highest_price * (Scale - (t.levels[lv].trigger - t.levels[lv].stop)),
        t.entry_price * (Scale + t.levels[lv].stop))

\* A stop that triggers only once the price is strictly below it.
TSLHitsStopStrict(p, stop_price) == p * Scale < stop_price

\* `if current_price <= stop_price`, the stop price being carried x10000.
TSLHitsStop(p, stop_price) == p * Scale <= stop_price

\* TrailingStopLoss.update without the suspension after a raised high-water mark.
TSLUpdateNoSuspend(p) ==
    IF p <= 0
    THEN /\ tsl_ret' = None
         /\ UNCHANGED <<tsl, tsl_stop>>
    ELSE
      LET pc   == CalculatePriceChange(tsl, p)
          t1   == [tsl EXCEPT !.highest_profit = IF pc > @ THEN pc ELSE @,
                              !.highest_price  = IF p > @ THEN p ELSE @]
          lv   == GetApplicableLevel(t1, t1.highest_profit)
      IN
      IF lv = NoLevel
      THEN /\ tsl' = t1
           /\ tsl_ret' = None
           /\ UNCHANGED tsl_stop
      ELSE
        LET t2 == [t1 EXCEPT !.current_level = lv]
            stop_price == TSLStopPrice(t2, lv)
        IN /\ tsl' = t2
           /\ tsl_stop' = stop_price
           /\ tsl_ret' = IF p * Scale <= stop_price
                         THEN (IF t2.levels[lv].immediate THEN stop_price ELSE p * Scale)
                         ELSE None

\* TrailingStopLoss.update(current_price)
TSLUpdate(p) ==
    IF p <= 0
    THEN /\ tsl_ret' = None
         /\ UNCHANGED <<tsl, tsl_stop>>
    ELSE
      LET pc   == CalculatePriceChange(tsl, p)
          up1  == pc > tsl.highest_profit
          up2  == p > tsl.highest_price
          t1   == [tsl EXCEPT !.highest_profit = IF up1 THEN pc ELSE @,
                              !.highest_price  = IF up2 THEN p ELSE @]
          price_updated == up1 \/ up2
          lv   == GetApplicableLevel(t1, t1.highest_profit)
      IN
      IF lv = NoLevel
      THEN /\ tsl' = t1
           /\ tsl_ret' = None
           /\ UNCHANGED tsl_stop
      ELSE
        LET t2 == [t1 EXCEPT !.current_level = lv]
            stop_price == TSLStopPrice(t2, lv)
        IN /\ tsl' = t2
           /\ tsl_stop' = stop_price
           /\ tsl_ret' = IF price_updated THEN None
                         ELSE IF TSLHitsStop(p, stop_price)
                              THEN (IF t2.levels[lv].immediate THEN stop_price ELSE p * Scale)
                              ELSE None

TSLPrices(entry) == {0} \cup ((entry - PriceDown)..(entry + (PriceUp * entry) \div Scale))

TSLStep ==
    /\ \E p \in TSLPrices(tsl.entry_price) : TSLUpdate(p)
    /\ UNCHANGED tsl_price
    /\ UNCHANGED varsASL
    /\ UNCHANGED sysVars

(***************************************************************************)
(* AdaptiveStopLoss                                                        *)
(***************************************************************************)

ATR_MULTIPLIER == 2
STOP_TIMEOUT_SEC == 5

\* Bounds of the inputs of AdaptiveStopLoss.update.
MaxTime == 7
AslEntry == 100
\* get_atr(): 0 stands for a missing reading (None or 0.0), a negative value is what
\* float(data.get("value", 0)) passes on when the provider sends one.
AtrValues == {0 - 1, 0, 1, 2, 3}
AslPrices == {0, 94, 96, 98, 100, 102}

\* current_stop_level = entry_price * (1 - dist_num/dist_den); the level set by
\* __init__ is the entry price itself (distance 0/1).
ASLNew(entry) ==
    [entry_price |-> entry, dist_num |-> 0, dist_den |-> 1, trigger_time |-> None]

\* new_stop_level < current_stop_level, with
\* new_stop_level = entry * (1 - (atr / last_price) * ATR_MULTIPLIER)
ASLLowerTighterTest(a, atr, last_price) ==
    atr * ATR_MULTIPLIER * a.dist_den > a.dist_num * last_price

\* last_price <= current_stop_level
ASLAtOrBelowStop(a, last_price) ==
    last_price * a.dist_den <= a.entry_price * (a.dist_den - a.dist_num)

\* AdaptiveStopLoss.update(last_price) with get_atr(symbol) = atr
ASLUpdate(atr, last_price) ==
    IF atr = 0 \/ last_price <= 0
    THEN /\ asl_ret' = FALSE
         /\ UNCHANGED asl
    ELSE
      LET a1 == IF ASLLowerTighterTest(asl, atr, last_price)
                THEN [asl EXCEPT !.dist_num = atr * ATR_MULTIPLIER,
                                 !.dist_den = last_price,
                                 !.trigger_time = None]
                ELSE asl
      IN
      IF ASLAtOrBelowStop(a1, last_price)
      THEN IF a1.trigger_time = None
           THEN /\ asl' = [a1 EXCEPT !.trigger_time = now]
                /\ asl_ret' = FALSE
           ELSE IF now - a1.trigger_time >= STOP_TIMEOUT_SEC
                THEN /\ asl' = [a1 EXCEPT !.trigger_time = None]
                     /\ asl_ret' = TRUE
                ELSE /\ asl' = a1
                     /\ asl_ret' = FALSE
      ELSE /\ asl' = [a1 EXCEPT !.trigger_time = None]
           /\ asl_ret' = FALSE

ASLStep ==
    /\ \E atr \in AtrValues, p \in AslPrices :
         ASLUpdate(atr, p) /\ asl_in' = [atr |-> atr, price |-> p]
    /\ UNCHANGED <<now>>
    /\ UNCHANGED varsTSL
    /\ UNCHANGED sysVars

ClockTick ==
    /\ now < MaxTime
    /\ now' = now + 1
    /\ UNCHANGED <<asl, asl_ret, asl_in>>
    /\ UNCHANGED varsTSL
    /\ UNCHANGED sysVars

(***************************************************************************)
(* The order pipeline: exchange, LimitOrderManager, PositionManager,       *)
(* TradeManager, PositionTracker and the market-analysis cycle.            *)
(*                                                                         *)
(* Every coroutine is a stack of frames owned by a task.  A frame whose pc *)
(* is in Susp is parked on a real await (network IO, a sleep, a held lock).*)
(* asyncio switches tasks only there, so an action is the resumption of    *)
(* one parked task followed by everything it runs up to its next real      *)
(* await.  The pieces of code in between are the operators below: each     *)
(* maps a run x = [s |-> program state, k |-> stack of the task,           *)
(* r |-> value returned by the callee that just finished] to the set of    *)
(* runs that can follow.                                                   *)
(***************************************************************************)

\* Symbols are numbered; Config.CRYPTO_LIST is a prefix of AllSymbols.
AllSymbols == {1, 2}
NoSym == 0

\* Order ids handed out by the exchange are 1, 2, ...; OrderIds is their universe.
MaxOrderIds == 6
OrderIds == 1..MaxOrderIds

MAX_POSITIONS == 1
DOUBLE_CONFIRMATION_TICKS == 2

LOMs == {"buy", "sell"}
Tasks == {"bpoll", "spoll", "scan", "check"}
NoTask == "none"
PollTask(L) == IF L = "buy" THEN "bpoll" ELSE "spoll"

\* Program points that are parked on a real await.
Susp == {"pl_sleep", "co_fetch", "co_cancel", "cf_fetch", "ca_fetch", "ca_cancel",
         "bt_price", "st_price", "op_wait", "op_bal", "op_create",
         "cp_bal", "cp_create", "ck_price", "sc_an", "sc_ind", "sc_stoch", "sc_can"}

Frame(pc) ==
    [pc |-> pc, L |-> "buy", sym |-> NoSym, o |-> 0, todo |-> <<>>, rem |-> {},
     cbs |-> <<>>, retry |-> FALSE, pos |-> 0, att |-> 0]

RECURSIVE SortedSeq(_)
SortedSeq(S) ==
    IF S = {} THEN <<>>
    ELSE LET m == CHOOSE x \in S : \A y \in S : x <= y
         IN <<m>> \o SortedSeq(S \ {m})

Orderings(S) ==
    {q \in [1..Cardinality(S) -> S] : \A i, j \in 1..Cardinality(S) : i # j => q[i] # q[j]}

\* The program state a task reads and writes while it runs.
St ==
    [lom |-> lom, exchange |-> exchange, watcher |-> watcher, pf |-> pf,
     pending_orders |-> pending_orders, md |-> md, locks |-> locks,
     cb_fill |-> cb_fill, cb_timeout |-> cb_timeout, pos_deleted |-> pos_deleted,
     buy_fill_post |-> buy_fill_post, exhaust_post |-> exhaust_post,
     can_open_post |-> can_open_post, open_post |-> open_post]

Go(x, f) == [x EXCEPT !.k = <<f>> \o Tail(x.k), !.r = "ok"]
Call(x, caller, callee) == [x EXCEPT !.k = <<callee, caller>> \o Tail(x.k), !.r = "ok"]
Ret(x, r) == [x EXCEPT !.k = Tail(x.k), !.r = r]

(***************************************************************************)
(* TrailingBuyRsi (utils/trading/trailing_buy.py)                          *)
(***************************************************************************)

TRAILING_BUY_RSI_LEVELS_NEUTRAL ==
    << [trigger |-> 25, stop |-> 30], [trigger |-> 20, stop |-> 25],
       [trigger |-> 10, stop |-> 20], [trigger |-> 0,  stop |-> 10] >>

NoTrig == 0 - 1
LowestRsiInit == 100
OversoldCeiling == 25
SpecialZoneTop == 30
RsiMax == 100

\* The level is identified by its trigger; its buy level comes from the table
\* (the special 25-30 level built in _get_applicable_level equals the first entry).
TBBuyLevel(trig) ==
    LET i == CHOOSE k \in 1..Len(cfg.levels) : cfg.levels[k].trigger = trig
    IN cfg.levels[i].stop

\* kind: "absent" (market_data has no attribute), "none" (attribute is None), "obj".
TBBlank(kind) ==
    [kind |-> kind, lowest_rsi |-> LowestRsiInit, current_level |-> NoTrig,
     lock |-> FALSE, emitted |-> FALSE]

TBNew == TBBlank("obj")

TBTriggers ==
    {cfg.levels[k].trigger : k \in 1..Len(cfg.levels)}

TBUpperBound(trig) ==
    IF \E x \in TBTriggers : x > trig
    THEN CHOOSE x \in TBTriggers : x > trig /\ \A y \in TBTriggers : y > trig => x <= y
    ELSE RsiMax

TBLowestTrigger == CHOOSE x \in TBTriggers : \A y \in TBTriggers : x <= y

\* A selection whose ranges are (trigger, next trigger].
TBGetApplicableLevelUpperInclusive(lowest) ==
    IF lowest > OversoldCeiling THEN NoTrig
    ELSE IF \E x \in TBTriggers : lowest > x /\ lowest <= TBUpperBound(x)
         THEN CHOOSE x \in TBTriggers : lowest > x /\ lowest <= TBUpperBound(x)
         ELSE TBLowestTrigger

\* _get_applicable_level: decided on lowest_rsi only.
TBGetApplicableLevel(lowest) ==
    IF lowest > OversoldCeiling THEN NoTrig
    ELSE IF lowest <= SpecialZoneTop /\ lowest >= OversoldCeiling THEN OversoldCeiling
    ELSE IF \E x \in TBTriggers : lowest >= x /\ lowest < TBUpperBound(x)
         THEN CHOOSE x \in TBTriggers : lowest >= x /\ lowest < TBUpperBound(x)
         ELSE IF lowest <= TBLowestTrigger THEN TBLowestTrigger
         ELSE NoTrig

\* An update() that keeps the last RSI where the code keeps the lowest.
TBUpdateKeepsLast(b, rsi) ==
    LET b1 == [b EXCEPT !.lowest_rsi = rsi]
        lv == TBGetApplicableLevel(b1.lowest_rsi)
    IN IF lv = NoTrig THEN b1
       ELSE LET b2 == [b1 EXCEPT !.current_level = lv]
            IN IF rsi >= TBBuyLevel(lv)
               THEN [b2 EXCEPT !.lock = TRUE, !.emitted = TRUE]
               ELSE b2

\* TrailingBuyRsi.update(current_rsi, current_price) with a valid price: the new object.
TBUpdate(b, rsi) ==
    LET b1 == IF rsi < b.lowest_rsi THEN [b EXCEPT !.lowest_rsi = rsi] ELSE b
        lv == TBGetApplicableLevel(b1.lowest_rsi)
    IN IF lv = NoTrig THEN b1
       ELSE LET b2 == [b1 EXCEPT !.current_level = lv]
            IN IF rsi >= TBBuyLevel(lv)
               THEN [b2 EXCEPT !.lock = TRUE, !.emitted = TRUE]
               ELSE b2

\* An update() that signals from the tier's trigger instead of its buy level.
TBUpdateSignalsAtTrigger(b, rsi) ==
    LET b1 == IF rsi < b.lowest_rsi THEN [b EXCEPT !.lowest_rsi = rsi] ELSE b
        lv == TBGetApplicableLevel(b1.lowest_rsi)
    IN lv # NoTrig /\ rsi >= lv

\* The value update() returns: TRUE when it returns the price (a signal), FALSE for None.
TBUpdateSignals(b, rsi) ==
    LET b1 == IF rsi < b.lowest_rsi THEN [b EXCEPT !.lowest_rsi = rsi] ELSE b
        lv == TBGetApplicableLevel(b1.lowest_rsi)
    IN lv # NoTrig /\ rsi >= TBBuyLevel(lv)

\* An update() that does not look at the price.
TBUpdateCallAnyPrice(b, rsi, price) ==
    IF rsi = None THEN b ELSE TBUpdate(b, rsi)

\* update() as called: a missing RSI (None) or a price <= 0 returns before anything
\* is touched.
TBUpdateCall(b, rsi, price) ==
    IF rsi = None \/ price <= 0 THEN b ELSE TBUpdate(b, rsi)

\* What update() returns as called: TRUE for the price, FALSE for None.
TBUpdateCallSignals(b, rsi, price) ==
    IF rsi = None \/ price <= 0 THEN FALSE ELSE TBUpdateSignals(b, rsi)

\* A reset() that does not look at the lock.
TBResetIgnoresLock(b) ==
    [b EXCEPT !.lowest_rsi = LowestRsiInit, !.current_level = NoTrig, !.emitted = FALSE]

\* TrailingBuyRsi.reset()
TBReset(b) ==
    IF b.lock THEN [b EXCEPT !.lock = FALSE]
    ELSE [b EXCEPT !.lowest_rsi = LowestRsiInit, !.current_level = NoTrig, !.emitted = FALSE]

\* market_data[symbol] as far as the detector is concerned
MDNew ==
    [tb |-> TBBlank("absent"), rsi_confirm_counter |-> 0, rsi_last_confirm_value |-> NoTrig]

(***************************************************************************)
(* Exchange                                                                *)
(***************************************************************************)

Created == 1..Len(exchange)

\* The exchange fills a resting order.
ExchFill(o) ==
    /\ o \in Created
    /\ exchange[o].status = "open"
    /\ exchange' = [exchange EXCEPT ![o].status = "closed"]
    /\ UNCHANGED <<stack, locks, lom, expired, watcher>>
    /\ UNCHANGED pmVars /\ UNCHANGED histVars /\ UNCHANGED engineVars /\ UNCHANGED cfgVars

\* The exchange cancels a resting order by itself (expiry, self-trade prevention, manual).
ExchCancel(o) ==
    /\ o \in Created
    /\ exchange[o].status = "open"
    /\ exchange' = [exchange EXCEPT ![o].status = "canceled"]
    /\ UNCHANGED <<stack, locks, lom, expired, watcher>>
    /\ UNCHANGED pmVars /\ UNCHANGED histVars /\ UNCHANGED engineVars /\ UNCHANGED cfgVars

\* time.time() - order_info['timestamp'] exceeds order_info['timeout'] from now on.
Expire(o) ==
    /\ o \in Created
    /\ o \in lom[exchange[o].side].active_orders
    /\ o \notin expired
    /\ expired' = expired \cup {o}
    /\ UNCHANGED <<stack, locks, lom, exchange, watcher>>
    /\ UNCHANGED pmVars /\ UNCHANGED histVars /\ UNCHANGED engineVars /\ UNCHANGED cfgVars

\* What fetch_order can answer: the status held by the exchange, or an exception.
FetchResults(s, o) == {s.exchange[o].status, "exc"}

\* exchange.cancel_order: an open order becomes canceled when the call goes through.
CancelAtExchange(ex, o, ok) ==
    IF ok /\ ex[o].status = "open"
    THEN [ex EXCEPT ![o].status = "canceled", ![o].mgr = TRUE]
    ELSE ex

(***************************************************************************)
(* Fill callbacks                                                          *)
(***************************************************************************)

\* TrailingStopLoss.__init__(self, entry_price, levels_config=None) against the
\* keywords of the call in _process_successful_buy_order.
TSLInitParams == {"entry_price", "levels_config"}
TSLInitKeywordsUsed == {"entry_price", "levels"}
TSLCtorAccepts == TSLInitKeywordsUsed \subseteq TSLInitParams

\* PositionManager._process_successful_buy_order(symbol, order): valid = average and
\* filled quantity are positive.  The position is identified by the buy order.
BuyFillPf(p, s, o, valid) ==
    IF ~valid THEN p
    ELSE LET p1 == [p EXCEPT !.positions[s] = o, !.trailing_stops = @ \cup {s}]
         IN IF TSLCtorAccepts
            THEN [p1 EXCEPT !.trailing_stop_paliers = @ \cup {s}]
            ELSE p1

BuyFillPending(pend, s, valid) ==
    IF valid /\ TSLCtorAccepts THEN pend \ {s} ELSE pend

BuyFillRaises(valid) == valid /\ ~TSLCtorAccepts

\* TradeManager._process_sell_order_filled(symbol, position, ...): position is the
\* object captured when the sell order was created.
SellFillPf(p, s, pos) ==
    IF p.positions[s] = 0 THEN p
    ELSE [p EXCEPT !.trade_history = Append(@, pos),
                   !.trailing_stops = @ \ {s},
                   !.positions[s] = 0]

SellFillMd(m, p, s) ==
    IF p.positions[s] = 0 THEN m
    ELSE IF m[s].tb.kind = "absent" THEN m
    ELSE [m EXCEPT ![s].tb = TBBlank("none")]

\* What a buy-fill callback with valid data left behind when it ended (history).
BuyFillPost(p, pend, s) ==
    [seen |-> TRUE, position |-> p.positions[s] # 0, trailing_stop |-> s \in p.trailing_stops,
     palier |-> s \in p.trailing_stop_paliers, pending |-> s \in pend]

\* The fill callback registered for order o in manager L, run to completion.
Fill(s, L, o, valid) ==
    LET sym == s.exchange[o].sym
        p   == IF L = "buy" THEN BuyFillPf(s.pf, sym, o, valid)
               ELSE SellFillPf(s.pf, sym, s.exchange[o].pos)
        pend == IF L = "buy" THEN BuyFillPending(s.pending_orders, sym, valid)
                ELSE s.pending_orders
    IN [s EXCEPT !.pf = p,
                 !.pending_orders = pend,
                 !.md = IF L = "buy" THEN @ ELSE SellFillMd(@, s.pf, sym),
                 !.cb_fill[o] = @ + 1,
                 !.buy_fill_post = IF L = "buy" /\ valid THEN BuyFillPost(p, pend, sym) ELSE @]

FillRaises(L, valid) == L = "buy" /\ BuyFillRaises(valid)

\* The frame of the timeout callback registered for order o in manager L.
TimeoutFrame(s, L, o) ==
    [Frame(IF L = "buy" THEN "bt_start" ELSE "st_start")
       EXCEPT !.L = L, !.sym = s.exchange[o].sym, !.o = o, !.pos = s.exchange[o].pos]

(***************************************************************************)
(* LimitOrderManager (utils/trading/limit_order_manager.py)                *)
(***************************************************************************)

\* Methods defined by class LimitOrderManager.
LOMMethods ==
    {"start_order_checker", "stop_order_checker", "_check_orders_loop",
     "_check_filled_orders", "_check_orders", "create_limit_buy_order",
     "create_limit_sell_order", "cancel_all_orders", "get_order_status",
     "get_active_orders_count", "get_buy_attempt_count", "get_sell_attempt_count",
     "reset_buy_attempts", "reset_sell_attempts", "_sell_order_timeout_watcher"}

LOMNew ==
    [active_orders |-> {}, order_callbacks |-> {}, fill_callbacks |-> {},
     order_attempts |-> [s \in AllSymbols |-> 0],
     sell_attempts |-> [s \in AllSymbols |-> 0]]

\* callbacks_to_execute.append(...) when the order has a timeout callback.
Queue(s, L, o, cbs) == IF o \in s.lom[L].order_callbacks THEN Append(cbs, o) ELSE cbs

\* _check_orders, loop head: skip the orders whose timeout has not elapsed.
CoNext(x) ==
    LET f == Head(x.k) IN
    IF f.todo = <<>>
    THEN {Go(x, [f EXCEPT !.pc = "co_finish"])}
    ELSE LET o == Head(f.todo) IN
         IF o \in expired
         THEN {Go(x, [f EXCEPT !.pc = "co_fetch", !.o = o, !.todo = Tail(@)])}
         ELSE {Go(x, [f EXCEPT !.todo = Tail(@)])}

\* _check_orders, after fetch_order: filled / already canceled / still open / exception.
CoFetchStep(x) ==
    LET f == Head(x.k)
        o == f.o
        L == f.L
        removed == [f EXCEPT !.pc = "co_next", !.rem = @ \cup {o}]
        queued == [removed EXCEPT !.cbs = Queue(x.s, L, o, @)]
    IN UNION { CASE r = "closed" ->
                      IF o \in x.s.lom[L].fill_callbacks
                      THEN { IF FillRaises(L, valid)
                             THEN [Go(x, queued) EXCEPT !.s = Fill(x.s, L, o, valid)]
                             ELSE [Go(x, removed) EXCEPT
                                     !.s = [Fill(x.s, L, o, valid) EXCEPT
                                              !.lom[L].fill_callbacks = @ \ {o}]]
                             : valid \in BOOLEAN }
                      ELSE {Go(x, removed)}
                 [] r = "canceled" ->
                      IF o \in x.s.lom[L].order_callbacks
                      THEN {Call(x, [removed EXCEPT !.pc = "co_canret"], TimeoutFrame(x.s, L, o))}
                      ELSE {Go(x, removed)}
                 [] r = "open" -> {Go(x, [f EXCEPT !.pc = "co_cancel"])}
                 [] OTHER -> {Go(x, queued)}
             : r \in FetchResults(x.s, o) }

\* _check_orders, the awaited timeout callback of an already canceled order is back:
\* `del self.order_callbacks[order_id]`, or the except branch if anything raised.
CoCanRet(x) ==
    LET f == Head(x.k)
        o == f.o
        L == f.L
    IN IF x.r = "exc" \/ o \notin x.s.lom[L].order_callbacks
       THEN {Go(x, [f EXCEPT !.pc = "co_next", !.cbs = Queue(x.s, L, o, @)])}
       ELSE {[Go(x, [f EXCEPT !.pc = "co_next"]) EXCEPT !.s.lom[L].order_callbacks = @ \ {o}]}

\* _check_orders after exchange.cancel_order, without orders_to_remove.append(order_id).
CoCancelStepNoRemove(x) ==
    LET f == Head(x.k)
        o == f.o
        L == f.L
    IN { [Go(x, [f EXCEPT !.pc = "co_next", !.cbs = Queue(x.s, L, o, @)])
            EXCEPT !.s.exchange = CancelAtExchange(@, o, ok)] : ok \in BOOLEAN }

\* _check_orders, after exchange.cancel_order: the timeout callback is queued whether
\* the call returned or raised.
CoCancelStep(x) ==
    LET f == Head(x.k)
        o == f.o
        L == f.L
    IN { [Go(x, [f EXCEPT !.pc = "co_next", !.rem = @ \cup {o}, !.cbs = Queue(x.s, L, o, @)])
            EXCEPT !.s.exchange = CancelAtExchange(@, o, ok)] : ok \in BOOLEAN }

\* _check_orders: remove orders_to_remove from active_orders.
CoFinish(x) ==
    LET f == Head(x.k) IN
    {[Go(x, [f EXCEPT !.pc = "co_cbs"]) EXCEPT !.s.lom[f.L].active_orders = @ \ f.rem]}

\* _check_orders: run the queued timeout callbacks one after the other.
CoCbs(x) ==
    LET f == Head(x.k) IN
    IF f.cbs = <<>>
    THEN {Ret(x, "ok")}
    ELSE {Call(x, [f EXCEPT !.cbs = Tail(@)], TimeoutFrame(x.s, f.L, Head(f.cbs)))}

\* _check_orders_loop goes on with _check_filled_orders: the orders not checked in the
\* last two seconds are selected.
PollCheckFilled(x) ==
    LET f == Head(x.k) IN
    { IF S = {}
      THEN Go(x, [f EXCEPT !.pc = "pl_sleep"])
      ELSE Call(x, [f EXCEPT !.pc = "pl_sleep"],
                   [Frame("cf_next") EXCEPT !.L = f.L, !.todo = SortedSeq(S)])
      : S \in SUBSET x.s.lom[f.L].active_orders }

\* _check_filled_orders, first loop head.
CfNext(x) ==
    LET f == Head(x.k) IN
    IF f.todo = <<>>
    THEN {Go(x, [f EXCEPT !.pc = "cf_proc"])}
    ELSE LET o == Head(f.todo) IN
         IF o \in x.s.lom[f.L].active_orders
         THEN {Go(x, [f EXCEPT !.pc = "cf_fetch", !.o = o, !.todo = Tail(@)])}
         ELSE {Go(x, [f EXCEPT !.todo = Tail(@)])}

\* _check_filled_orders, after fetch_order.
CfFetchStep(x) ==
    LET f == Head(x.k) IN
    { Go(x, [f EXCEPT !.pc = "cf_next", !.cbs = IF r = "closed" THEN Append(@, f.o) ELSE @])
      : r \in FetchResults(x.s, f.o) }

\* _check_filled_orders, second loop: deregister, then run the fill callback; a
\* callback that raises is logged and its entry stays in fill_callbacks.
CfProc(x) ==
    LET f == Head(x.k)
        L == f.L
    IN IF f.cbs = <<>>
       THEN {Ret(x, "ok")}
       ELSE LET o == Head(f.cbs)
                y == [Go(x, [f EXCEPT !.cbs = Tail(@)]) EXCEPT !.s.lom[L].active_orders = @ \ {o}]
            IN IF o \in x.s.lom[L].fill_callbacks
               THEN { IF FillRaises(L, valid)
                      THEN [y EXCEPT !.s = Fill(y.s, L, o, valid)]
                      ELSE [y EXCEPT !.s = [Fill(y.s, L, o, valid) EXCEPT
                                              !.lom[L].fill_callbacks = @ \ {o}]]
                      : valid \in BOOLEAN }
               ELSE {y}

\* The frame cancel_all_orders(symbol) starts with: the snapshot of the registry,
\* restricted to the symbol.
CancelAllFrame(s, L, sym) ==
    [Frame("ca_next") EXCEPT !.L = L, !.sym = sym,
        !.todo = SortedSeq({o \in s.lom[L].active_orders : s.exchange[o].sym = sym})]

\* cancel_all_orders(symbol), loop head.
CaNext(x) ==
    LET f == Head(x.k) IN
    IF f.todo = <<>>
    THEN {Go(x, [f EXCEPT !.pc = "ca_finish"])}
    ELSE {Go(x, [f EXCEPT !.pc = "ca_fetch", !.o = Head(f.todo), !.todo = Tail(@)])}

\* cancel_all_orders, after fetch_order.
CaFetchStep(x) ==
    LET f == Head(x.k)
        o == f.o
        L == f.L
        removed == [f EXCEPT !.pc = "ca_next", !.rem = @ \cup {o}]
        queued == [removed EXCEPT !.cbs = Queue(x.s, L, o, @)]
    IN UNION { CASE r = "closed" ->
                      IF o \in x.s.lom[L].fill_callbacks
                      THEN { IF FillRaises(L, valid)
                             THEN [Go(x, queued) EXCEPT !.s = Fill(x.s, L, o, valid)]
                             ELSE [Go(x, removed) EXCEPT
                                     !.s = [Fill(x.s, L, o, valid) EXCEPT
                                              !.lom[L].fill_callbacks = @ \ {o}]]
                             : valid \in BOOLEAN }
                      ELSE {Go(x, removed)}
                 [] r = "exc" -> {Go(x, queued)}
                 [] OTHER -> {Go(x, [f EXCEPT !.pc = "ca_cancel"])}
             : r \in FetchResults(x.s, o) }

\* cancel_all_orders, after exchange.cancel_order.
CaCancelStep(x) ==
    LET f == Head(x.k)
        o == f.o
        L == f.L
    IN { [Go(x, [f EXCEPT !.pc = "ca_next", !.rem = @ \cup {o}, !.cbs = Queue(x.s, L, o, @)])
            EXCEPT !.s.exchange = CancelAtExchange(@, o, ok)] : ok \in BOOLEAN }

\* cancel_all_orders: drop orders_to_remove from active_orders and order_callbacks.
CaFinish(x) ==
    LET f == Head(x.k) IN
    {[Go(x, [f EXCEPT !.pc = "ca_cbs"]) EXCEPT !.s.lom[f.L].active_orders = @ \ f.rem,
                                                !.s.lom[f.L].order_callbacks = @ \ f.rem]}

\* cancel_all_orders: run the queued timeout callbacks.
CaCbs(x) ==
    LET f == Head(x.k) IN
    IF f.cbs = <<>>
    THEN {Ret(x, "ok")}
    ELSE {Call(x, [f EXCEPT !.cbs = Tail(@)], TimeoutFrame(x.s, f.L, Head(f.cbs)))}

(***************************************************************************)
(* PositionManager (portfolio_manager/position_manager.py)                 *)
(***************************************************************************)

\* max_attempts of _handle_order_timeout.
BuyTimeoutMaxAttempts == 5

\* max_attempts handed to create_limit_buy_order and shown in "Tentative n/3".
BuyOrderMaxAttempts == 3

\* Leaving `async with lock` in open_position.
Unlock(x, sym) == [x EXCEPT !.s.locks[sym] = NoTask]

\* on_timeout() then _handle_order_timeout(symbol, ...), up to its first await: the
\* pending entry is dropped, the position and its adaptive stop are deleted, and either
\* a retry is prepared or the attempt is abandoned and the detector reset.
BtStart(x) ==
    LET f == Head(x.k)
        sym == f.sym
        attempt == x.s.lom["buy"].order_attempts[sym]
        held == x.s.pf.positions[sym]
        s1 == [x.s EXCEPT !.cb_timeout[f.o] = @ + 1,
                          !.pending_orders = @ \ {sym},
                          !.pf = IF held # 0
                                 THEN [@ EXCEPT !.positions[sym] = 0, !.trailing_stops = @ \ {sym}]
                                 ELSE @,
                          !.pos_deleted = IF held # 0 THEN @ \cup {held} ELSE @]
    IN IF attempt < BuyTimeoutMaxAttempts
       THEN {[Go(x, [f EXCEPT !.pc = "bt_price"]) EXCEPT !.s = s1]}
       ELSE LET s2 == [s1 EXCEPT !.lom["buy"].order_attempts[sym] = 0] IN
            IF s2.md[sym].tb.kind = "absent" THEN {[Ret(x, "ok") EXCEPT !.s = s2]}
            ELSE IF s2.md[sym].tb.kind = "none" THEN {[Ret(x, "exc") EXCEPT !.s = s2]}
            ELSE {[Ret(x, "ok") EXCEPT
                     !.s = [s2 EXCEPT !.md[sym].tb = TBReset(@),
                                      !.exhaust_post = @ \cup {TBReset(s2.md[sym].tb)}]]}

\* _handle_order_timeout after get_current_price: no price ends the callback, a price
\* leads to open_position(..., is_retry=True).
BtPriceStep(x) ==
    LET f == Head(x.k) IN
    { IF priced
      THEN Call(x, [f EXCEPT !.pc = "bt_ret"],
                   [Frame("op_enter") EXCEPT !.sym = f.sym, !.retry = TRUE])
      ELSE Ret(x, "ok")
      : priced \in BOOLEAN }

\* _handle_order_timeout: open_position returned or raised (the exception is logged).
BtRet(x) == {Ret(x, "ok")}

\* No open_position call has ended yet.
NoOpenPost == [sym |-> NoSym, result |-> "none", pending |-> FALSE, moved |-> FALSE]

\* How an open_position call of symbol sym ends (history): what it returns ("true",
\* "false") or that it raises ("exc"), whether pending_orders still holds the symbol,
\* and whether positions differs from what it was when the task was last resumed,
\* that is whether the call itself wrote it on its way out.
OpenPost(x, sym, result) ==
    IF observe
    THEN [x EXCEPT !.s.open_post = [sym |-> sym, result |-> result,
                                    pending |-> sym \in x.s.pending_orders,
                                    moved |-> x.s.pf.positions # pf.positions]]
    ELSE x

\* open_position: `async with lock`.  A free lock is taken without yielding; a held
\* one parks the caller.
OpEnter(t, x) ==
    LET f == Head(x.k) IN
    IF x.s.locks[f.sym] = NoTask
    THEN {[Go(x, [f EXCEPT !.pc = "op_a"]) EXCEPT !.s.locks[f.sym] = t]}
    ELSE {Go(x, [f EXCEPT !.pc = "op_wait"])}

\* open_position: the waiter takes the lock that has been released.
OpWaitStep(t, x) ==
    LET f == Head(x.k) IN
    {[Go(x, [f EXCEPT !.pc = "op_a"]) EXCEPT !.s.locks[f.sym] = t]}

\* open_position: an entry in pending_orders leads to cancel_all_orders(symbol).
OpA(x) ==
    LET f == Head(x.k) IN
    IF f.sym \in x.s.pending_orders
    THEN {Call(x, [f EXCEPT !.pc = "op_a2"], CancelAllFrame(x.s, "buy", f.sym))}
    ELSE {Go(x, [f EXCEPT !.pc = "op_b"])}

\* open_position: `del self.pending_orders[symbol]` raises KeyError when a timeout
\* callback run by cancel_all_orders has popped the entry.
OpA2(x) ==
    LET f == Head(x.k) IN
    IF f.sym \in x.s.pending_orders
    THEN {[Go(x, [f EXCEPT !.pc = "op_b"]) EXCEPT !.s.pending_orders = @ \ {f.sym}]}
    ELSE {OpenPost(Unlock(Ret(x, "exc"), f.sym), f.sym, "exc")}

\* open_position: pending_orders[symbol] = {...}; on a first attempt the counter is
\* reset and cancel_all_orders(symbol) is awaited.
OpB(x) ==
    LET f == Head(x.k)
        s1 == [x.s EXCEPT !.pending_orders = @ \cup {f.sym}]
    IN IF f.retry
       THEN {[Go(x, [f EXCEPT !.pc = "op_c"]) EXCEPT !.s = s1]}
       ELSE LET s2 == [s1 EXCEPT !.lom["buy"].order_attempts[f.sym] = 0] IN
            {[Call(x, [f EXCEPT !.pc = "op_c"], CancelAllFrame(s2, "buy", f.sym)) EXCEPT !.s = s2]}

NumPositions(p) == Cardinality({s \in AllSymbols : p.positions[s] # 0})

\* open_position: the two position checks, then get_balance.
OpC(x) ==
    LET f == Head(x.k) IN
    IF x.s.pf.positions[f.sym] # 0 \/ NumPositions(x.s.pf) >= MAX_POSITIONS
    THEN {OpenPost([Unlock(Ret(x, "false"), f.sym) EXCEPT !.s.pending_orders = @ \ {f.sym}],
                   f.sym, "false")}
    ELSE {Go(x, [f EXCEPT !.pc = "op_bal"])}

\* open_position taking the counter itself as the attempt number.
OpBalStepNoIncrement(x) ==
    LET f == Head(x.k) IN
    { IF ~enough
      THEN OpenPost([Unlock(Ret(x, "false"), f.sym) EXCEPT !.s.pending_orders = @ \ {f.sym}],
                    f.sym, "false")
      ELSE IF f.sym \notin x.s.pending_orders
           THEN OpenPost(Unlock(Ret(x, "exc"), f.sym), f.sym, "exc")
           ELSE Go(x, [f EXCEPT !.pc = "op_create",
                                !.att = x.s.lom["buy"].order_attempts[f.sym]])
      : enough \in BOOLEAN }

\* open_position after get_balance: insufficient balance gives up; otherwise the
\* attempt number is taken and recorded in pending_orders[symbol] (KeyError if the
\* entry has been popped meanwhile).
OpBalStep(x) ==
    LET f == Head(x.k) IN
    { IF ~enough
      THEN OpenPost([Unlock(Ret(x, "false"), f.sym) EXCEPT !.s.pending_orders = @ \ {f.sym}],
                    f.sym, "false")
      ELSE IF f.sym \notin x.s.pending_orders
           THEN OpenPost(Unlock(Ret(x, "exc"), f.sym), f.sym, "exc")
           ELSE Go(x, [f EXCEPT !.pc = "op_create",
                                !.att = x.s.lom["buy"].order_attempts[f.sym] + 1])
      : enough \in BOOLEAN }

\* open_position after create_limit_buy_order: the order is registered with both
\* callbacks, or the creation failed.  cap bounds the orders the exchange accepts.
OpCreateStep(x, cap) ==
    LET f == Head(x.k)
        o == Len(x.s.exchange) + 1
    IN { IF accepted /\ Len(x.s.exchange) < cap
         THEN OpenPost([Unlock(Ret(x, "true"), f.sym) EXCEPT
                 !.s.exchange = Append(@, [sym |-> f.sym, side |-> "buy", status |-> "open",
                                           pos |-> 0, attempt |-> f.att, mgr |-> FALSE]),
                 !.s.lom["buy"].active_orders = @ \cup {o},
                 !.s.lom["buy"].order_attempts[f.sym] = f.att,
                 !.s.lom["buy"].order_callbacks = @ \cup {o},
                 !.s.lom["buy"].fill_callbacks = @ \cup {o}], f.sym, "true")
         ELSE OpenPost([Unlock(Ret(x, "false"), f.sym) EXCEPT !.s.pending_orders = @ \ {f.sym}],
                       f.sym, "false")
         : accepted \in BOOLEAN }

(***************************************************************************)
(* TradeManager (portfolio_manager/trade_manager.py)                       *)
(***************************************************************************)

\* max_attempts of the sell side.
SellTimeoutMaxAttempts == 10

\* on_timeout() then _handle_order_timeout(symbol, position) up to get_current_price.
StStart(x) ==
    LET f == Head(x.k) IN
    {[Go(x, [f EXCEPT !.pc = "st_price"]) EXCEPT
        !.s.cb_timeout[f.o] = @ + 1,
        !.s.lom["sell"].sell_attempts[f.sym] =
            IF @ + 1 > SellTimeoutMaxAttempts THEN 0 ELSE @]}

\* _handle_order_timeout after get_current_price: close_position is called again.
StPriceStep(x) ==
    LET f == Head(x.k) IN
    { IF priced
      THEN Call(x, [f EXCEPT !.pc = "st_ret"],
                   [Frame("cp_start") EXCEPT !.L = "sell", !.sym = f.sym, !.pos = f.pos])
      ELSE Ret(x, "ok")
      : priced \in BOOLEAN }

\* _handle_order_timeout: close_position is back.
StRet(x) == {Ret(x, "ok")}

\* close_position: the position must exist; then get_balance is awaited.
CpStart(x) ==
    LET f == Head(x.k) IN
    IF x.s.pf.positions[f.sym] = 0
    THEN {Ret(x, "ok")}
    ELSE {Go(x, [f EXCEPT !.pc = "cp_bal"])}

ActiveSellOrders(s, sym) == {o \in s.lom["sell"].active_orders : s.exchange[o].sym = sym}

\* close_position after get_balance: the notional check, then the loop over the
\* active sell orders of the symbol, whose first iteration calls
\* limit_order_manager.cancel_order (undefined: AttributeError, caught at the end).
CpBalStep(x) ==
    LET f == Head(x.k)
        n == x.s.lom["sell"].sell_attempts[f.sym]
    IN { IF too_small
         THEN Ret(x, "ok")
         ELSE IF ActiveSellOrders(x.s, f.sym) # {} /\ "cancel_order" \notin LOMMethods
              THEN Ret(x, "ok")
              ELSE Go(x, [f EXCEPT !.pc = "cp_create", !.att = IF n > 0 THEN n + 1 ELSE 1])
         : too_small \in BOOLEAN }

\* close_position after create_limit_sell_order: the order is registered with both
\* callbacks and its watcher is started, or the creation failed.
CpCreateStep(x, cap) ==
    LET f == Head(x.k)
        o == Len(x.s.exchange) + 1
    IN { IF accepted /\ Len(x.s.exchange) < cap
         THEN [Ret(x, "ok") EXCEPT
                 !.s.exchange = Append(@, [sym |-> f.sym, side |-> "sell", status |-> "open",
                                           pos |-> f.pos, attempt |-> f.att, mgr |-> FALSE]),
                 !.s.lom["sell"].active_orders = @ \cup {o},
                 !.s.lom["sell"].sell_attempts[f.sym] = f.att,
                 !.s.lom["sell"].order_callbacks = @ \cup {o},
                 !.s.lom["sell"].fill_callbacks = @ \cup {o},
                 !.s.watcher = @ \cup {o}]
         ELSE Ret(x, "ok")
         : accepted \in BOOLEAN }

(***************************************************************************)
(* PositionTracker.check_positions (scheduled while a position is open)    *)
(***************************************************************************)

HeldSymbols(p) == {s \in AllSymbols : p.positions[s] # 0}

\* check_positions: the prices that could be fetched, then list(positions.keys()).
CkPriceStep(x) ==
    LET f == Head(x.k) IN
    { Go(x, [f EXCEPT !.pc = "ck_next", !.rem = P, !.todo = q])
      : P \in SUBSET f.rem, q \in Orderings(HeldSymbols(x.s.pf)) }

\* check_positions, one symbol: the tiered stop if one is registered, else the
\* adaptive stop; a triggered stop calls close_position with the position object.
CkNext(x) ==
    LET f == Head(x.k) IN
    IF f.todo = <<>>
    THEN {Ret(x, "ok")}
    ELSE LET sym == Head(f.todo)
             next == [f EXCEPT !.todo = Tail(@)]
         IN IF x.s.pf.positions[sym] = 0 \/ sym \notin f.rem
            THEN {Go(x, next)}
            ELSE IF sym \in x.s.pf.trailing_stop_paliers \/ sym \in x.s.pf.trailing_stops
                 THEN { IF triggered
                        THEN Call(x, next, [Frame("cp_start") EXCEPT
                                              !.L = "sell", !.sym = sym,
                                              !.pos = x.s.pf.positions[sym]])
                        ELSE Go(x, next)
                        : triggered \in BOOLEAN }
                 ELSE {Go(x, next)}

(***************************************************************************)
(* The market-analysis cycle (main.py, market_analyzer/opportunity_finder) *)
(***************************************************************************)

NoData == 0 - 2

\* analyze_market has the indicators: per symbol its RSI, or no data.
ScAnStep(x, rsis) ==
    LET f == Head(x.k)
        syms == f.todo
    IN { Go(x, [f EXCEPT !.pc = "sc_sym",
                         !.todo = [i \in 1..Len(syms) |-> [sym |-> syms[i], rsi |-> r[i]]]])
         : r \in [1..Len(syms) -> rsis \cup {NoData}] }

\* find_opportunities, loop head: a symbol without data is skipped, otherwise
\* get_stochastic_values is awaited with the RSI of the symbol in hand.
ScSym(x) ==
    LET f == Head(x.k) IN
    IF f.todo = <<>>
    THEN {Go(x, [f EXCEPT !.pc = "sc_pick"])}
    ELSE IF Head(f.todo).rsi = NoData
         THEN {Go(x, [f EXCEPT !.todo = Tail(@)])}
         ELSE {Go(x, [f EXCEPT !.pc = "sc_ind", !.sym = Head(f.todo).sym,
                               !.att = Head(f.todo).rsi, !.todo = Tail(@)])}

\* The tick counting where a repeated value counts again.
ScanUpdateCountsRepeats(m, rsi) ==
    LET m1 == IF m.tb.kind # "obj"
              THEN [tb |-> TBNew, rsi_confirm_counter |-> 0, rsi_last_confirm_value |-> NoTrig]
              ELSE m
        m2 == [m1 EXCEPT !.tb = TBUpdate(@, rsi)]
        lv == m2.tb.current_level
    IN IF lv = NoTrig THEN m2
       ELSE IF rsi >= TBBuyLevel(lv)
            THEN [m2 EXCEPT !.rsi_confirm_counter = @ + 1, !.rsi_last_confirm_value = rsi]
            ELSE [m2 EXCEPT !.rsi_confirm_counter = 0, !.rsi_last_confirm_value = NoTrig]

\* The detector and counters of a symbol after the update and the tick counting.
ScanUpdate(m, rsi) ==
    LET m1 == IF m.tb.kind # "obj"
              THEN [tb |-> TBNew, rsi_confirm_counter |-> 0, rsi_last_confirm_value |-> NoTrig]
              ELSE m
        m2 == [m1 EXCEPT !.tb = TBUpdate(@, rsi)]
        lv == m2.tb.current_level
    IN IF lv = NoTrig THEN m2
       ELSE IF rsi >= TBBuyLevel(lv)
            THEN IF m2.rsi_confirm_counter = 0
                 THEN [m2 EXCEPT !.rsi_confirm_counter = 1, !.rsi_last_confirm_value = rsi]
                 ELSE IF rsi # m2.rsi_last_confirm_value
                      THEN [m2 EXCEPT !.rsi_confirm_counter = @ + 1,
                                      !.rsi_last_confirm_value = rsi]
                      ELSE m2
            ELSE [m2 EXCEPT !.rsi_confirm_counter = 0, !.rsi_last_confirm_value = NoTrig]

\* A confirmation reached at the first counted tick.
ScanConfirmedAnyTick(m) ==
    /\ m.tb.current_level # NoTrig
    /\ m.rsi_confirm_counter >= 1

ScanConfirmed(m) ==
    /\ m.tb.current_level # NoTrig
    /\ m.rsi_confirm_counter >= cfg.ticks

\* find_opportunities after get_stochastic_values: detector update and tick counting.
ScIndStep(x) ==
    LET f == Head(x.k)
        m == ScanUpdate(x.s.md[f.sym], f.att)
    IN {[Go(x, [f EXCEPT !.pc = IF ScanConfirmed(m) THEN "sc_stoch" ELSE "sc_sym"])
           EXCEPT !.s.md[f.sym] = m]}

\* find_opportunities after the stochastic filter: not met -> a fresh detector;
\* met -> the detector is locked, then the ATR/ADX/market-info filters may still
\* reject the opportunity.
ScStochStep(x) ==
    LET f == Head(x.k)
        sym == f.sym
        next == [f EXCEPT !.pc = "sc_sym"]
    IN { IF outcome = "not_met"
         THEN [Go(x, next) EXCEPT !.s.md[sym].rsi_confirm_counter = 0, !.s.md[sym].tb = TBNew]
         ELSE IF x.s.md[sym].tb.kind # "obj"
              THEN Go(x, next)
              ELSE [Go(x, [next EXCEPT !.cbs = IF outcome = "kept" THEN Append(@, sym) ELSE @])
                      EXCEPT !.s.md[sym].tb.lock = TRUE, !.s.md[sym].tb.emitted = TRUE,
                             !.s.md[sym].rsi_confirm_counter = 0]
         : outcome \in {"not_met", "rejected", "kept"} }

\* can_open_position without the check of the number of positions.
CanOpenBlockedNoMax(s, sym) ==
    \/ sym \in s.pending_orders
    \/ s.pf.positions[sym] # 0

\* can_open_position(symbol), the three checks made before get_balance: an entry in
\* pending_orders, a position of the symbol, MAX_POSITIONS reached.
CanOpenBlocked(s, sym) ==
    \/ sym \in s.pending_orders
    \/ s.pf.positions[sym] # 0
    \/ NumPositions(s.pf) >= MAX_POSITIONS

\* The state can_open_position(sym) was called in, with its result (history).
CanOpenObs(s, sym, result) ==
    [sym |-> sym, full |-> NumPositions(s.pf) >= MAX_POSITIONS,
     held |-> s.pf.positions[sym] # 0, pend |-> sym \in s.pending_orders,
     result |-> result]

\* _market_analysis_cycle: the first opportunity; can_open_position up to get_balance.
ScPick(x) ==
    LET f == Head(x.k) IN
    IF f.cbs = <<>>
    THEN {Ret(x, "ok")}
    ELSE LET sym == Head(f.cbs) IN
         IF CanOpenBlocked(x.s, sym)
         THEN {[Ret(x, "ok") EXCEPT !.s.can_open_post = CanOpenObs(x.s, sym, "false")]}
         ELSE {[Go(x, [f EXCEPT !.pc = "sc_can", !.sym = sym])
                  EXCEPT !.s.can_open_post = CanOpenObs(x.s, sym, "wait")]}

\* can_open_position after get_balance, then open_position(symbol, buy_price, size).
ScCanStep(x) ==
    LET f == Head(x.k) IN
    { IF enough
      THEN [Call(x, [f EXCEPT !.pc = "sc_ret"],
                    [Frame("op_enter") EXCEPT !.sym = f.sym, !.retry = FALSE])
              EXCEPT !.s.can_open_post.result = "true"]
      ELSE [Ret(x, "ok") EXCEPT !.s.can_open_post.result = "false"]
      : enough \in BOOLEAN }

\* _market_analysis_cycle: after a successful open_position the detector is reset.
ScRet(x) ==
    LET f == Head(x.k)
        sym == f.sym
    IN IF x.r = "true" /\ x.s.md[sym].tb.kind = "obj"
       THEN {[Ret(x, "ok") EXCEPT !.s.md[sym].tb = TBReset(@)]}
       ELSE {Ret(x, "ok")}

(***************************************************************************)
(* Running a task up to its next real await                                *)
(***************************************************************************)

\* One piece of code of task t, chosen by the program point of its innermost frame.
Internal(t, x) ==
    LET pc == Head(x.k).pc IN
    CASE pc = "pl_cf"     -> PollCheckFilled(x)
      [] pc = "co_next"   -> CoNext(x)
      [] pc = "co_canret" -> CoCanRet(x)
      [] pc = "co_finish" -> CoFinish(x)
      [] pc = "co_cbs"    -> CoCbs(x)
      [] pc = "cf_next"   -> CfNext(x)
      [] pc = "cf_proc"   -> CfProc(x)
      [] pc = "ca_next"   -> CaNext(x)
      [] pc = "ca_finish" -> CaFinish(x)
      [] pc = "ca_cbs"    -> CaCbs(x)
      [] pc = "bt_start"  -> BtStart(x)
      [] pc = "bt_ret"    -> BtRet(x)
      [] pc = "op_enter"  -> OpEnter(t, x)
      [] pc = "op_a"      -> OpA(x)
      [] pc = "op_a2"     -> OpA2(x)
      [] pc = "op_b"      -> OpB(x)
      [] pc = "op_c"      -> OpC(x)
      [] pc = "st_start"  -> StStart(x)
      [] pc = "st_ret"    -> StRet(x)
      [] pc = "cp_start"  -> CpStart(x)
      [] pc = "ck_next"   -> CkNext(x)
      [] pc = "sc_sym"    -> ScSym(x)
      [] pc = "sc_pick"   -> ScPick(x)
      [] pc = "sc_ret"    -> ScRet(x)

RECURSIVE RunToAwait(_, _)
RunToAwait(t, x) ==
    IF x.k = <<>> \/ Head(x.k).pc \in Susp
    THEN {x}
    ELSE UNION {RunToAwait(t, y) : y \in Internal(t, x)}

Parked(t, pc) == stack[t] # <<>> /\ Head(stack[t]).pc = pc

Here(t) == [s |-> St, k |-> stack[t], r |-> "ok"]

\* Task t resumes with one of the runs in X and runs up to its next await; n is the
\* number of market-analysis cycles counted after the step.
ResumeCounting(t, X, n) ==
    \E y \in X : \E x \in RunToAwait(t, y) :
       /\ scans' = n
       /\ stack' = [stack EXCEPT ![t] = x.k]
       /\ lom' = x.s.lom
       /\ exchange' = x.s.exchange
       /\ watcher' = x.s.watcher
       /\ pf' = x.s.pf
       /\ pending_orders' = x.s.pending_orders
       /\ md' = x.s.md
       /\ locks' = x.s.locks
       /\ cb_fill' = x.s.cb_fill
       /\ cb_timeout' = x.s.cb_timeout
       /\ pos_deleted' = x.s.pos_deleted
       /\ buy_fill_post' = x.s.buy_fill_post
       /\ exhaust_post' = x.s.exhaust_post
       /\ can_open_post' = x.s.can_open_post
       /\ open_post' = x.s.open_post
       /\ UNCHANGED expired
       /\ UNCHANGED engineVars /\ UNCHANGED cfgVars

Resume(t, X) == ResumeCounting(t, X, scans)

(***************************************************************************)
(* Actions: one per await of the program                                   *)
(***************************************************************************)

\* _check_orders_loop wakes from its sleep and enters _check_orders, which takes
\* list(self.active_orders.items()).  A pass over an empty registry does nothing.
PollWake(L) ==
    LET t == PollTask(L) IN
    /\ Parked(t, "pl_sleep")
    /\ lom[L].active_orders # {}
    /\ Resume(t, {Call(Here(t), [Head(stack[t]) EXCEPT !.pc = "pl_cf"],
                       [Frame("co_next") EXCEPT !.L = L,
                                                !.todo = SortedSeq(lom[L].active_orders)])})

CoFetch(t) == Parked(t, "co_fetch") /\ Resume(t, CoFetchStep(Here(t)))
CoCancel(t) == Parked(t, "co_cancel") /\ Resume(t, CoCancelStep(Here(t)))
CfFetch(t) == Parked(t, "cf_fetch") /\ Resume(t, CfFetchStep(Here(t)))
CaFetch(t) == Parked(t, "ca_fetch") /\ Resume(t, CaFetchStep(Here(t)))
CaCancel(t) == Parked(t, "ca_cancel") /\ Resume(t, CaCancelStep(Here(t)))
BtPrice(t) == Parked(t, "bt_price") /\ Resume(t, BtPriceStep(Here(t)))
OpBal(t) == Parked(t, "op_bal") /\ Resume(t, OpBalStep(Here(t)))
OpCreate(t, cap) == Parked(t, "op_create") /\ Resume(t, OpCreateStep(Here(t), cap))
StPrice(t) == Parked(t, "st_price") /\ Resume(t, StPriceStep(Here(t)))
CpBal(t) == Parked(t, "cp_bal") /\ Resume(t, CpBalStep(Here(t)))
CpCreate(t, cap) == Parked(t, "cp_create") /\ Resume(t, CpCreateStep(Here(t), cap))
CkPrice(t) == Parked(t, "ck_price") /\ Resume(t, CkPriceStep(Here(t)))
ScAn(t, rsis) == Parked(t, "sc_an") /\ Resume(t, ScAnStep(Here(t), rsis))
ScInd(t) == Parked(t, "sc_ind") /\ Resume(t, ScIndStep(Here(t)))
ScStoch(t) == Parked(t, "sc_stoch") /\ Resume(t, ScStochStep(Here(t)))
ScCan(t) == Parked(t, "sc_can") /\ Resume(t, ScCanStep(Here(t)))

\* The lock a task waits for in open_position has been released.
OpWait(t) ==
    /\ Parked(t, "op_wait")
    /\ locks[Head(stack[t]).sym] = NoTask
    /\ Resume(t, OpWaitStep(t, Here(t)))

\* _check_positions_cycle (scheduled while a position is open) -> check_positions:
\* the symbols are listed, the prices awaited.
CkStart ==
    /\ stack["check"] = <<>>
    /\ HeldSymbols(pf) # {}
    /\ Resume("check", {[Here("check") EXCEPT
                           !.k = << [Frame("ck_price") EXCEPT !.rem = HeldSymbols(pf)] >>]})

NoBudget == 0 - 1

\* _market_analysis_cycle starts (only while no position is open) and awaits
\* analyze_market; syms is Config.CRYPTO_LIST.  A specification may run a bounded
\* number of cycles (budget), or any number (NoBudget).
ScanStart(syms, budget) ==
    /\ stack["scan"] = <<>>
    /\ HeldSymbols(pf) = {}
    /\ budget = NoBudget \/ scans < budget
    /\ ResumeCounting("scan", {[Here("scan") EXCEPT
                                  !.k = << [Frame("sc_an") EXCEPT !.todo = SortedSeq(syms)] >>]},
                       IF budget = NoBudget THEN scans ELSE scans + 1)

\* _sell_order_timeout_watcher wakes after its sleep: its call of self.cancel_order
\* (not a method of the class) raises, and the exception is logged.
WatcherWake(o) ==
    /\ o \in watcher
    /\ o \in expired \/ o \notin lom["sell"].active_orders
    /\ watcher' = watcher \ {o}
    /\ IF o \in lom["sell"].active_orders /\ "cancel_order" \in LOMMethods
       THEN lom' = [lom EXCEPT !["sell"].active_orders = @ \ {o}]
       ELSE UNCHANGED lom
    /\ UNCHANGED <<stack, locks, exchange, expired>>
    /\ UNCHANGED pmVars /\ UNCHANGED histVars /\ UNCHANGED engineVars /\ UNCHANGED cfgVars

(***************************************************************************)
(* Specifications                                                          *)
(***************************************************************************)

vars == <<tsl, tsl_stop, tsl_ret, tsl_price, asl, asl_ret, asl_in, now,
          stack, locks, lom, exchange, expired, watcher,
          pf, pending_orders, md,
          cb_fill, cb_timeout, pos_deleted, buy_fill_post, exhaust_post,
          can_open_post, open_post, scans, cfg, observe, boot, gate, tb_call, sell_size, io>>

(***************************************************************************)
(* The quantity close_position sells (trade_manager.py)                    *)
(***************************************************************************)

MIN_TRANSACTION_QUOTE_AMOUNT == 1

\* close_position returned before any order: no quantity.
NoSale == [sold |-> FALSE, num |-> 0, den |-> 1]

\* markets[symbol].limits.cost.min, or the configured minimum when it is missing
\* or not positive.
MinOrderValue(m) == IF m <= 0 THEN MIN_TRANSACTION_QUOTE_AMOUNT ELSE m

\* The sizing that raises the quantity to the minimum without comparing it with
\* the quantity held.
SellQuantityUncapped(q, p, m) ==
    IF p <= 0 THEN NoSale
    ELSE IF q * p < MinOrderValue(m)
         THEN [sold |-> TRUE, num |-> MinOrderValue(m) * 101, den |-> p * 100]
         ELSE IF q <= 0 THEN NoSale ELSE [sold |-> TRUE, num |-> q, den |-> 1]

\* close_position(symbol, position, current_price) for a symbol in positions, up to
\* the submission: the quantity handed to create_limit_sell_order as num/den, for the
\* held quantity q, the price p and the exchange minimum m. required_quantity is
\* (min_order_value / current_price) * 1.01.
SellQuantity(q, p, m) ==
    IF p <= 0 THEN NoSale
    ELSE IF q * p < MinOrderValue(m)
         THEN IF MinOrderValue(m) * 101 > q * p * 100
              THEN NoSale
              ELSE [sold |-> TRUE, num |-> MinOrderValue(m) * 101, den |-> p * 100]
         ELSE IF q <= 0 THEN NoSale ELSE [sold |-> TRUE, num |-> q, den |-> 1]

\* Config as config.py defines it.
ConfigDefault ==
    [levels |-> TRAILING_BUY_RSI_LEVELS_NEUTRAL, ticks |-> DOUBLE_CONFIRMATION_TICKS]

\* The bot after start-up under configuration c: no order, no position, the poll
\* loops asleep.
InitSysObs(c, obs) ==
    /\ stack = [t \in Tasks |->
                  IF t = "bpoll" THEN << [Frame("pl_sleep") EXCEPT !.L = "buy"] >>
                  ELSE IF t = "spoll" THEN << [Frame("pl_sleep") EXCEPT !.L = "sell"] >>
                  ELSE <<>>]
    /\ locks = [s \in AllSymbols |-> NoTask]
    /\ lom = [L \in LOMs |-> LOMNew]
    /\ exchange = <<>>
    /\ expired = {}
    /\ watcher = {}
    /\ pf = [positions |-> [s \in AllSymbols |-> 0], trailing_stops |-> {},
             trailing_stop_paliers |-> {}, trade_history |-> <<>>]
    /\ pending_orders = {}
    /\ md = [s \in AllSymbols |-> MDNew]
    /\ cb_fill = [o \in OrderIds |-> 0]
    /\ cb_timeout = [o \in OrderIds |-> 0]
    /\ pos_deleted = {}
    /\ buy_fill_post = [seen |-> FALSE, position |-> FALSE, trailing_stop |-> FALSE,
                        palier |-> FALSE, pending |-> FALSE]
    /\ exhaust_post = {}
    /\ can_open_post = [sym |-> NoSym, full |-> FALSE, held |-> FALSE, pend |-> FALSE,
                        result |-> "none"]
    /\ open_post = NoOpenPost
    /\ observe = obs
    /\ scans = 0
    /\ cfg = c
    /\ gate = <<>>
    /\ tb_call = [op |-> "none", rsi |-> None, price |-> 0, ret |-> FALSE, fed |-> {}]
    /\ sell_size = [q |-> 0, p |-> 0, min |-> 0, r |-> NoSale]
    /\ io = [caller |-> "none", kind |-> "none", pc |-> "idle", attempts |-> 0,
             provider |-> "up", ticks |-> 0]

\* The bot after start-up with the configuration of config.py.
\* MarketAnalyzer() has been built, no TrailingStopLoss yet.
Started == [analyzer |-> "up", exit |-> "none"]

InitSysCfg(c) == InitSysObs(c, FALSE) /\ boot = Started

InitSys == InitSysCfg(ConfigDefault)

InitTSLIdle == tsl = TSLNew(10000) /\ tsl_stop = None /\ tsl_ret = None /\ tsl_price = None
InitASLIdle ==
    /\ asl = ASLNew(AslEntry) /\ asl_ret = FALSE /\ now = 0
    /\ asl_in = [atr |-> 0, price |-> 0]

InitTSL ==
    /\ \E e \in EntryPrices : tsl = TSLNew(e)
    /\ tsl_stop = None /\ tsl_ret = None /\ tsl_price = None
    /\ InitASLIdle
    /\ InitSys

NextTSL == TSLStep

SpecTSL == InitTSL /\ [][NextTSL]_vars

InitASL == InitTSLIdle /\ InitASLIdle /\ InitSys

NextASL == ASLStep \/ ClockTick

SpecASL == InitASL /\ [][NextASL]_vars

\* The order checker of one manager and what the exchange does to orders.
Orders ==
    \/ \E o \in OrderIds : ExchCancel(o)
    \/ \E o \in OrderIds : Expire(o)
    \/ \E L \in LOMs : PollWake(L)
    \/ \E t \in Tasks : CoFetch(t)
    \/ \E t \in Tasks : CoCancel(t)
    \/ \E t \in Tasks : CfFetch(t)

\* The buy side: the scan, open_position and the buy timeout callback.
BuySide(syms, rsis, cap, budget) ==
    \/ ScanStart(syms, budget)
    \/ \E t \in Tasks : ScAn(t, rsis)
    \/ \E t \in Tasks : ScInd(t)
    \/ \E t \in Tasks : ScStoch(t)
    \/ \E t \in Tasks : ScCan(t)
    \/ \E t \in Tasks : OpBal(t)
    \/ \E t \in Tasks : OpCreate(t, cap)
    \/ \E t \in Tasks : BtPrice(t)

\* open_position meeting an order still registered for the symbol, or a held lock.
Contention ==
    \/ \E t \in Tasks : OpWait(t)
    \/ \E t \in Tasks : CaFetch(t)
    \/ \E t \in Tasks : CaCancel(t)

\* The sell side: check_positions, close_position and the sell timeout callback.
SellSide(cap) ==
    \/ CkStart
    \/ \E t \in Tasks : CkPrice(t)
    \/ \E t \in Tasks : CpBal(t)
    \/ \E t \in Tasks : CpCreate(t, cap)
    \/ \E t \in Tasks : StPrice(t)
    \/ \E o \in OrderIds : WatcherWake(o)

\* The main specification: Config.CRYPTO_LIST (one symbol), MaxOrders orders.
MaxOrders == 2
CRYPTO_LIST == {1}
RsiInputs == {24, 31, 32}

Init == InitTSLIdle /\ InitASLIdle /\ InitSys

Next ==
    \/ Orders
    \/ \E o \in OrderIds : ExchFill(o)
    \/ BuySide(CRYPTO_LIST, RsiInputs, MaxOrders, NoBudget)
    \/ Contention
    \/ SellSide(MaxOrders)

Spec == Init /\ [][Next]_vars

\* The retry specification: the buy side alone, on one symbol, with orders that are
\* never filled, up to MaxRetryOrders orders.
MaxRetryOrders == 5

MaxRetryScans == 5

NextRetry ==
    \/ \E o \in OrderIds : Expire(o)
    \/ \E L \in LOMs : PollWake(L)
    \/ \E t \in Tasks : CoFetch(t)
    \/ \E t \in Tasks : CoCancel(t)
    \/ \E t \in Tasks : CfFetch(t)
    \/ BuySide(CRYPTO_LIST, RsiInputs, MaxRetryOrders, MaxRetryScans)
    \/ Contention

SpecRetry == Init /\ [][NextRetry]_vars

\* The sell specification: one symbol bought once, then sold with up to
\* MaxSellOrders orders in all.
MaxSellOrders == 4
MaxSellScans == 3

NextSell ==
    \/ \E o \in OrderIds : Expire(o)
    \/ \E o \in OrderIds : ExchFill(o)
    \/ \E L \in LOMs : PollWake(L)
    \/ \E t \in Tasks : CoFetch(t)
    \/ \E t \in Tasks : CoCancel(t)
    \/ \E t \in Tasks : CfFetch(t)
    \/ BuySide(CRYPTO_LIST, RsiInputs, MaxSellOrders, MaxSellScans)
    \/ SellSide(MaxSellOrders)

SpecSell == Init /\ [][NextSell]_vars

\* The two-symbol specification: the buy side on two tradable symbols.
TwoSymbols == {1, 2}
MaxTwoOrders == 2
MaxTwoScans == 4

NextTwo ==
    \/ Orders
    \/ \E o \in OrderIds : ExchFill(o)
    \/ BuySide(TwoSymbols, RsiInputs, MaxTwoOrders, MaxTwoScans)

SpecTwo == Init /\ [][NextTwo]_vars

(***************************************************************************)
(* Properties                                                              *)
(***************************************************************************)

\* C1: for every registered order, the fill callback and the timeout callback are
\* together invoked at most once (never both, never one of them twice), whatever the
\* exchange answers and also when the callback itself raises.
C1_ExactlyOneCallbackOnce ==
    \A o \in OrderIds : cb_fill[o] + cb_timeout[o] <= 1

\* C2: in every reachable state each registry holds at most one active order per
\* symbol (a registry serves one side: buy orders in PositionManager's, sell orders in
\* TradeManager's).
C2_OneActiveOrderPerSymbolSide ==
    \A L \in LOMs : \A o1, o2 \in lom[L].active_orders :
        exchange[o1].sym = exchange[o2].sym => o1 = o2

\* C3: a position exists only through the fill callback of its buy order, and no
\* position is ever deleted by a buy-timeout callback.
C3_PositionsOnlyByFillCallbacks ==
    /\ pos_deleted = {}
    /\ \A s \in AllSymbols : pf.positions[s] # 0 => cb_fill[pf.positions[s]] >= 1

\* C4: the stop price computed by TrailingStopLoss.update never decreases from one
\* call that computes it to the next, whatever the prices and the tier changes.
C4_StopMonotonic == [][tsl_stop' >= tsl_stop]_vars

\* C4 witness: the tier has changed upward and a later, lower price hit the stop.
C4_Witness ==
    /\ tsl.current_level >= 3
    /\ tsl_ret # None
    /\ tsl_stop > tsl.entry_price * Scale

\* C5: AdaptiveStopLoss.current_stop_level never decreases (the distance below the
\* entry price never grows).
C5_AdaptiveStopNeverDecreases ==
    [][asl'.dist_num * asl.dist_den <= asl.dist_num * asl'.dist_den]_vars

C7_NoFourthBuyOrder ==
    \A o \in Created : exchange[o].side = "buy" => exchange[o].attempt <= BuyOrderMaxAttempts

\* C8: a buy-fill callback that ran with valid fill data left the position, its stop
\* in trailing_stops and in trailing_stop_paliers, and no pending_orders entry.
C8_BuyFillLeavesCompleteState ==
    buy_fill_post.seen =>
        /\ buy_fill_post.position
        /\ buy_fill_post.trailing_stop
        /\ buy_fill_post.palier
        /\ ~buy_fill_post.pending

\* C9: whenever the buy retries of a symbol are exhausted, its TrailingBuyRsi is left
\* fully reset: lowest_rsi = 100, no current level, _signal_emitted false.
C9_DetectorFullyResetOnExhaustion ==
    \A b \in exhaust_post :
        /\ b.lowest_rsi = LowestRsiInit
        /\ b.current_level = NoTrig
        /\ ~b.emitted

\* C10: once the manager is done with a sell order that is filled at the exchange,
\* trade_history holds exactly one record of its position and the position is gone;
\* and no position is ever recorded twice.
C10_FilledSellRecordedOnce ==
    /\ \A o \in Created :
          (/\ exchange[o].side = "sell"
           /\ exchange[o].status = "closed"
           /\ o \notin lom["sell"].active_orders)
          => /\ Cardinality({i \in 1..Len(pf.trade_history) :
                               pf.trade_history[i] = exchange[o].pos}) = 1
             /\ pf.positions[exchange[o].sym] # exchange[o].pos
    /\ \A i, j \in 1..Len(pf.trade_history) :
          pf.trade_history[i] = pf.trade_history[j] => i = j

\* The program points inside the decision-and-submission section of open_position
\* (from the first statement under `async with lock` to the return) and of
\* close_position (from the balance read to the return of create_limit_sell_order).
OpenSection == {"op_a2", "op_c", "op_bal", "op_create"}
CloseSection == {"cp_bal", "cp_create"}

\* Task t has an open_position or close_position of the symbol in progress.
InSection(t, sym) ==
    \E i \in 1..Len(stack[t]) :
        /\ stack[t][i].pc \in OpenSection \cup CloseSection
        /\ stack[t][i].sym = sym

\* C11: for one symbol, at no instant are two decision-and-submission sections
\* (two opens, two closes, or an open and a close, retries included) in progress.
C11_SectionsMutuallyExclusive ==
    \A sym \in AllSymbols : \A t1, t2 \in Tasks :
        (InSection(t1, sym) /\ InSection(t2, sym)) => t1 = t2

\* The step is a submission by open_position: create_limit_buy_order has registered
\* a new buy order of the symbol.
BuySubmitted(sym) ==
    /\ Len(exchange') = Len(exchange) + 1
    /\ exchange'[Len(exchange')].side = "buy"
    /\ exchange'[Len(exchange')].sym = sym

ActiveBuyOrders(sym) == {o \in lom["buy"].active_orders : exchange[o].sym = sym}

\* C12: whenever open_position submits a buy order, at that moment the symbol has no
\* position, fewer than MAX_POSITIONS positions are open, no other order of the symbol
\* is registered, and the symbol's lock is held (the balance check is the branch that
\* leads to the submission).
C12_SubmissionPreconditions ==
    [][\A sym \in AllSymbols :
          BuySubmitted(sym) =>
              /\ pf.positions[sym] = 0
              /\ NumPositions(pf) < MAX_POSITIONS
              /\ ActiveBuyOrders(sym) = {}
              /\ locks[sym] # NoTask]_vars

\* The entry cycle on two symbols with orders that never time out: the scan,
\* can_open_position, open_position and the fills, up to MaxCanOrders orders.
MaxCanOrders == 1
MaxCanScans == 4

NextCan ==
    \/ \E o \in OrderIds : ExchFill(o)
    \/ \E L \in LOMs : PollWake(L)
    \/ \E t \in Tasks : CfFetch(t)
    \/ ScanStart(TwoSymbols, MaxCanScans)
    \/ \E t \in Tasks : ScAn(t, RsiInputs)
    \/ \E t \in Tasks : ScInd(t)
    \/ \E t \in Tasks : ScStoch(t)
    \/ \E t \in Tasks : ScCan(t)
    \/ \E t \in Tasks : OpBal(t)
    \/ \E t \in Tasks : OpCreate(t, MaxCanOrders)

SpecCan == Init /\ [][NextCan]_vars

\* C13: can_open_position(symbol) returns False whenever it is called with
\* MAX_POSITIONS positions open (also when the symbol itself has none), with a
\* position of the symbol, or with an entry of the symbol in pending_orders.
C13_CanOpenRefuses ==
    (can_open_post.full \/ can_open_post.held \/ can_open_post.pend)
        => can_open_post.result = "false"

\* C13 witness: the call was refused for a symbol without position or pending entry
\* because the only allowed position is held by another symbol.
C13_Witness ==
    /\ can_open_post.sym # NoSym
    /\ can_open_post.full /\ ~can_open_post.held /\ ~can_open_post.pend
    /\ can_open_post.result = "false"

\* Task t is inside an open_position call for the symbol.
OpenInProgress(t, sym) ==
    \E i \in 1..Len(stack[t]) :
        /\ stack[t][i].pc \in OpenSection \cup {"op_wait"}
        /\ stack[t][i].sym = sym

\* C14: an entry in pending_orders implies that an open_position call for the symbol
\* is in progress or that a buy order of the symbol is still registered in
\* active_orders: no entry survives a fill, a timeout or a failed submission.
C14_PendingOnlyWhileInFlight ==
    \A sym \in AllSymbols :
        sym \in pending_orders =>
            \/ \E t \in Tasks : OpenInProgress(t, sym)
            \/ ActiveBuyOrders(sym) # {}

\* The buy side on one symbol with fills, timeouts, manager cancellations and
\* cancel_all_orders, without the sell side.
MaxCancelOrders == 2
MaxCancelScans == 5

NextCancel ==
    \/ \E o \in OrderIds : Expire(o)
    \/ \E o \in OrderIds : ExchFill(o)
    \/ \E L \in LOMs : PollWake(L)
    \/ \E t \in Tasks : CoFetch(t)
    \/ \E t \in Tasks : CoCancel(t)
    \/ \E t \in Tasks : CfFetch(t)
    \/ BuySide(CRYPTO_LIST, RsiInputs, MaxCancelOrders, MaxCancelScans)
    \/ Contention

SpecCancel == Init /\ [][NextCancel]_vars

\* Orders whose cancellation by the manager went through at the exchange.
ManagerCanceled == {o \in Created : exchange[o].mgr}

\* The pass (_check_orders or cancel_all_orders) that canceled order o is still
\* running and holds o in its orders_to_remove.
RemovalPending(o) ==
    \E t \in Tasks : \E i \in 1..Len(stack[t]) :
        /\ stack[t][i].L = exchange[o].side
        /\ o \in stack[t][i].rem

\* C15: an order canceled by the manager is removed from active_orders by the pass
\* that canceled it, and no fill callback is delivered for it afterwards.
C15_CanceledOrderNeverFills ==
    /\ [](\A o \in ManagerCanceled :
             o \in lom[exchange[o].side].active_orders => RemovalPending(o))
    /\ [][\A o \in ManagerCanceled : cb_fill'[o] = cb_fill[o]]_vars

\* C15 witness: an order canceled by the manager is out of the registry and a later
\* order of the same symbol has been filled and delivered.
C15_Witness ==
    \E o1, o2 \in Created :
        /\ exchange[o1].mgr
        /\ o1 \notin lom[exchange[o1].side].active_orders
        /\ o1 < o2
        /\ cb_fill[o1] = 0
        /\ cb_fill[o2] = 1

\* Tier a is not below tier b: neither its trigger nor its stop is lower.
NotBelow(t, a, b) ==
    /\ t.levels[a].trigger >= t.levels[b].trigger
    /\ t.levels[a].stop >= t.levels[b].stop

\* C16: once highest_profit_percentage has reached the trigger of tier N, a tier is
\* selected and it is not below N; and from one update to the next, whatever the
\* price, the selected tier never moves down.
C16_NoTierDowngrade ==
    /\ [](\A n \in 1..Len(tsl.levels) :
             tsl.highest_profit >= tsl.levels[n].trigger * tsl.entry_price
                 => /\ tsl.current_level # NoLevel
                    /\ NotBelow(tsl, tsl.current_level, n))
    /\ [][tsl.current_level # NoLevel
             => /\ tsl'.current_level # NoLevel
                /\ NotBelow(tsl', tsl'.current_level, tsl.current_level)]_vars

\* C16 witness: the high-water mark is past the 0.85 % trigger, the tier selected is
\* the 1.00 % / 0.80 % one, and a lower price has been fed since (it hit the stop).
C16_Witness ==
    /\ tsl.highest_profit >= 85 * tsl.entry_price
    /\ tsl.current_level = 7
    /\ tsl_ret # None
    /\ tsl_ret < tsl.highest_price * Scale

\* C17: an update call that raises the high-water mark (a new highest price or a new
\* highest profit) returns no liquidation price, whatever the computed stop is.
C17_FreshHighNeverTriggers ==
    [][(tsl'.highest_price > tsl.highest_price \/ tsl'.highest_profit > tsl.highest_profit)
          => tsl_ret' = None]_vars

\* C17 witness: a tier is selected, the computed stop equals the highest price, and
\* nothing was returned: the price of the fresh high was at its own stop.
C17_Witness ==
    /\ tsl.current_level # NoLevel
    /\ tsl.highest_price > tsl.entry_price
    /\ tsl_stop = tsl.highest_price * Scale
    /\ tsl_ret = None

\* TrailingStopLoss(entry_price, levels_config): the tiers given by the caller.
TSLNewLevels(entry, levels) == [TSLNew(entry) EXCEPT !.levels = levels]

\* levels_config of one tier {trigger 0.20, stop 0.12}, immediate or not.
SingleTier(imm) == << [trigger |-> 20, stop |-> 12, immediate |-> imm] >>

TierConfigs == {TRAILING_STOP_LEVELS, SingleTier(TRUE), SingleTier(FALSE)}

InitTSLTiers ==
    /\ \E lv \in TierConfigs : tsl = TSLNewLevels(10000, lv)
    /\ tsl_stop = None /\ tsl_ret = None /\ tsl_price = None
    /\ InitASLIdle
    /\ InitSys

\* Bound of the prices fed above the entry price where the price of each call is recorded.
MaxTierPriceUp == 40

TierPrices(entry) == {0} \cup ((entry - PriceDown)..(entry + MaxTierPriceUp))

\* One update(current_price) call, its argument recorded.
TSLStepPriced ==
    /\ \E p \in TierPrices(tsl.entry_price) : TSLUpdate(p) /\ tsl_price' = p
    /\ UNCHANGED varsASL
    /\ UNCHANGED sysVars

NextTSLTiers == TSLStepPriced

SpecTSLTiers == InitTSLTiers /\ [][NextTSLTiers]_vars

\* An update() call with a valid price that raised neither high-water mark and
\* left a tier selected.
NonRaisingUpdate ==
    /\ tsl_price' > 0
    /\ tsl'.highest_price = tsl.highest_price
    /\ tsl'.highest_profit = tsl.highest_profit
    /\ tsl'.current_level # NoLevel

\* C18: an update that does not raise the high-water mark and has a tier selected
\* returns a liquidation price exactly when the current price is at or below the
\* stop price, and that value is the stop price for an immediate tier and the
\* current price otherwise; with entry 100 and the single tier {0.20, 0.12}, the
\* update at 100.20 returns nothing and the update at 100.12 that follows the high
\* of 100.20 returns 100.12.
C18_TriggerAtOrBelowStop ==
    /\ [][NonRaisingUpdate =>
            IF tsl_price' * Scale <= tsl_stop'
            THEN tsl_ret' = (IF tsl'.levels[tsl'.current_level].immediate
                             THEN tsl_stop' ELSE tsl_price' * Scale)
            ELSE tsl_ret' = None]_vars
    /\ [][(tsl.levels = SingleTier(TRUE) /\ tsl.highest_price = 10000 /\ tsl_price' = 10020)
            => tsl_ret' = None]_vars
    /\ [][(tsl.levels = SingleTier(TRUE) /\ tsl.highest_price = 10020 /\ tsl_price' = 10012)
            => tsl_ret' = 10012 * Scale]_vars

C18_Witness ==
    /\ tsl.levels = SingleTier(TRUE)
    /\ tsl.highest_price = 10020
    /\ tsl_price = 10012
    /\ tsl_ret = 10012 * Scale
    /\ tsl_ret = tsl_stop

\* Task t is resumed at program point pc by this step.
ResumedAt(t, pc) ==
    /\ stack[t] # <<>>
    /\ Head(stack[t]).pc = pc
    /\ stack'[t] # stack[t]

\* The opportunities find_opportunities of task t has collected so far.
Opportunities(k) ==
    IF k # <<>> /\ k[Len(k)].pc \in {"sc_sym", "sc_ind", "sc_stoch", "sc_pick", "sc_can"}
    THEN k[Len(k)].cbs
    ELSE <<>>

\* The tick counting of one sample (value rsi of symbol sym) follows the rules.
TickRule(sym, rsi) ==
    LET lv == md'[sym].tb.current_level
        c0 == md[sym].rsi_confirm_counter
        c1 == md'[sym].rsi_confirm_counter
    IN lv # NoTrig =>
         IF rsi >= TBBuyLevel(lv)
         THEN IF c0 = 0 \/ rsi # md[sym].rsi_last_confirm_value
              THEN c1 = c0 + 1
              ELSE c1 = c0
         ELSE c1 = 0

\* C19: in the entry scan, a sample of a symbol with a tier selected raises the
\* confirmation counter by exactly 1 when its value is at or above the buy level
\* and is the first confirming sample or differs from the last confirmed value,
\* leaves it unchanged when the value equals the last confirmed value, and sets it
\* to 0 when the value is below the buy level; an opportunity is produced only in
\* a sample whose counter has reached DOUBLE_CONFIRMATION_TICKS.
C19_ConfirmationCounter ==
    /\ [][\A t \in Tasks : ResumedAt(t, "sc_ind")
            => TickRule(Head(stack[t]).sym, Head(stack[t]).att)]_vars
    /\ [][\A t \in Tasks :
            (ResumedAt(t, "sc_ind") /\ stack'[t] # <<>> /\ Head(stack'[t]).pc = "sc_stoch")
            => md'[Head(stack[t]).sym].rsi_confirm_counter >= DOUBLE_CONFIRMATION_TICKS]_vars
    /\ [][\A t \in Tasks :
            Len(Opportunities(stack'[t])) > Len(Opportunities(stack[t]))
            => ResumedAt(t, "sc_stoch")]_vars

\* C19 witness: a symbol whose counter stands at 1 with its last confirmed value,
\* and another symbol already produced as an opportunity in the same scan.
C19_Witness ==
    \E t \in Tasks : \E s1, s2 \in AllSymbols :
        /\ Opportunities(stack[t]) = <<s1>>
        /\ s2 # s1
        /\ md[s2].rsi_confirm_counter = 1
        /\ md[s2].rsi_last_confirm_value # NoTrig
        /\ md[s2].tb.current_level # NoTrig

\* A configuration with the single tier {trigger 25, buy level 30} and three
\* confirmation ticks.
GateConfig == [levels |-> << [trigger |-> 25, stop |-> 30] >>, ticks |-> 3]

GateInputs == {24, 31, 32, 33}
MaxGateSamples == 4

\* find_opportunities on one symbol, one sample: the detector update, the tick
\* counting and the test of the counter against the required ticks. The feed stops
\* at the first confirmation.
GateStep ==
    /\ Len(gate) < MaxGateSamples
    /\ IF gate = <<>> THEN TRUE ELSE ~gate[Len(gate)].signal
    /\ \E rsi \in GateInputs :
         LET m == ScanUpdate(md[1], rsi) IN
         /\ md' = [md EXCEPT ![1] = m]
         /\ gate' = Append(gate, [rsi |-> rsi, signal |-> ScanConfirmed(m)])
    /\ UNCHANGED <<stack, locks, lom, exchange, expired, watcher, pf, pending_orders, cfg, observe, boot, tb_call, sell_size, io>>
    /\ UNCHANGED histVars /\ UNCHANGED engineVars

InitGate ==
    /\ InitTSLIdle /\ InitASLIdle
    /\ \E c \in {ConfigDefault, GateConfig} : InitSysCfg(c)

NextGate == GateStep

SpecGate == InitGate /\ [][NextGate]_vars

\* The values fed so far, in order.
Fed == [i \in 1..Len(gate) |-> gate[i].rsi]

\* The values fed so far are the first ones of q.
FedWithin(q) == Len(gate) <= Len(q) /\ \A i \in 1..Len(gate) : gate[i].rsi = q[i]

\* C20 as stated: with the single tier {25, 30} and three required ticks, the values
\* 24, 31, 31, 31 give no signal on samples 1 and 2 and a signal on sample 4.
C20_SignalOnFourthSample ==
    (cfg = GateConfig /\ Fed = <<24, 31, 31, 31>>)
        => ~gate[1].signal /\ ~gate[2].signal /\ gate[4].signal

\* C20, amended: with the single tier {25, 30} and three required ticks, the values
\* 24, 31, 31, 31 give no signal on any of the four samples, the counter standing
\* at 1 from sample 2 on; the values 24, 31, 32, 33 give no signal on samples 1 to 3
\* and a signal on sample 4.
C20_RepeatedValueNotCounted ==
    /\ (cfg = GateConfig /\ FedWithin(<<24, 31, 31, 31>>))
         => /\ \A i \in 1..Len(gate) : ~gate[i].signal
            /\ Len(gate) >= 2 => md[1].rsi_confirm_counter = 1
    /\ (cfg = GateConfig /\ FedWithin(<<24, 31, 32, 33>>))
         => \A i \in 1..Len(gate) : gate[i].signal <=> i = 4

C20_Witness ==
    /\ cfg = GateConfig
    /\ Fed = <<24, 31, 31, 31>>
    /\ md[1].tb.current_level = 25
    /\ md[1].rsi_last_confirm_value = 31

\* A flag of the detector of sym goes from false to true in this step.
FlagRaised(sym) ==
    \/ ~md[sym].tb.lock /\ md'[sym].tb.lock
    \/ ~md[sym].tb.emitted /\ md'[sym].tb.emitted

\* C21: the lock flag and the signal-emitted flag of the entry detector become
\* true only in a sample where the confirmation count reaches the configured
\* requirement (either the counting of that sample reached it, or the step is the
\* continuation of such a sample after the stochastic filter).
C21_FlagsOnlyOnConfirmation ==
    [][\A sym \in AllSymbols : FlagRaised(sym) =>
         \/ md'[sym].rsi_confirm_counter >= cfg.ticks
         \/ \E t \in Tasks : ResumedAt(t, "sc_stoch") /\ Head(stack[t]).sym = sym]_vars

(***************************************************************************)
(* One TrailingBuyRsi instance on its own: construction, update, reset     *)
(***************************************************************************)

TBInputs == {0, 8, 15, 20, 24, 25, 27, 31}
TBPriceInputs == {0, 100}

\* What a call on the detector of symbol 1 leaves alone.
TBRest ==
    /\ UNCHANGED <<stack, locks, lom, exchange, expired, watcher, pf, pending_orders, cfg, observe, boot, gate, sell_size, io>>
    /\ UNCHANGED histVars /\ UNCHANGED engineVars

\* TrailingBuyRsi()
TBCreateStep ==
    /\ md[1].tb.kind # "obj"
    /\ md' = [md EXCEPT ![1].tb = TBNew]
    /\ tb_call' = [op |-> "new", rsi |-> None, price |-> 0, ret |-> FALSE, fed |-> {}]
    /\ TBRest

\* update(current_rsi, current_price)
TBUpdateStep ==
    /\ md[1].tb.kind = "obj"
    /\ \E rsi \in TBInputs \cup {None}, price \in TBPriceInputs :
         /\ md' = [md EXCEPT ![1].tb = TBUpdateCall(@, rsi, price)]
         /\ tb_call' = [op |-> "update", rsi |-> rsi, price |-> price,
                        ret |-> TBUpdateCallSignals(md[1].tb, rsi, price),
                        fed |-> IF rsi = None \/ price <= 0 THEN tb_call.fed
                                ELSE tb_call.fed \cup {rsi}]
    /\ TBRest

\* reset(); a reset of an unlocked detector is a full reset.
TBResetStep ==
    /\ md[1].tb.kind = "obj"
    /\ md' = [md EXCEPT ![1].tb = TBReset(@)]
    /\ tb_call' = [op |-> "reset", rsi |-> None, price |-> 0, ret |-> FALSE,
                   fed |-> IF md[1].tb.lock THEN tb_call.fed ELSE {}]
    /\ TBRest

NextTB == TBCreateStep \/ TBUpdateStep \/ TBResetStep

SpecTB == Init /\ [][NextTB]_vars

\* A reset() call is made in this step.
ResetCalled == tb_call'.op = "reset"

\* The detector is in the state a full reset leaves.
FullyReset(b) ==
    /\ b.lowest_rsi = LowestRsiInit
    /\ b.current_level = NoTrig
    /\ ~b.emitted
    /\ ~b.lock

\* C22: reset() on a locked detector only clears the lock and leaves lowest_rsi,
\* current_level and _signal_emitted unchanged; on an unlocked detector it sets
\* lowest_rsi to 100 and clears current_level and _signal_emitted; two consecutive
\* reset() calls end in the fully reset state.
C22_ResetFrame ==
    /\ [][ResetCalled =>
            IF md[1].tb.lock
            THEN md'[1].tb = [md[1].tb EXCEPT !.lock = FALSE]
            ELSE md'[1].tb = [md[1].tb EXCEPT !.lowest_rsi = LowestRsiInit,
                                              !.current_level = NoTrig,
                                              !.emitted = FALSE]]_vars
    /\ [][(tb_call.op = "reset" /\ ResetCalled) => FullyReset(md'[1].tb)]_vars

\* C22 witness: a reset() of a locked detector has just been made; the minimum, the
\* tier and the signal flag are still there.
C22_Witness ==
    /\ tb_call.op = "reset"
    /\ ~md[1].tb.lock
    /\ md[1].tb.emitted
    /\ md[1].tb.lowest_rsi < LowestRsiInit
    /\ md[1].tb.current_level # NoTrig

\* An AdaptiveStopLoss.update call is made in this step (the clock stands still).
ASLCalled == now' = now

\* C23: AdaptiveStopLoss.update returns True only when the timer was armed, the
\* price of the call is at or below the stop level and STOP_TIMEOUT_SEC has elapsed
\* since the arming; a tick at or below the level with the timer unarmed arms it and
\* returns False; and every call made with a price above the stop level leaves the
\* timer unarmed, also when the volatility reading is missing (so that an armed timer
\* has seen only prices at or below the level).
C23_TimerFollowsPrice ==
    /\ [][(ASLCalled /\ asl_ret') =>
            /\ asl.trigger_time # None
            /\ now - asl.trigger_time >= STOP_TIMEOUT_SEC
            /\ ASLAtOrBelowStop(asl', asl_in'.price)]_vars
    /\ [][(ASLCalled /\ asl_in'.atr # 0 /\ asl_in'.price > 0 /\ asl.trigger_time = None
             /\ ASLAtOrBelowStop(asl', asl_in'.price))
            => asl'.trigger_time = now /\ ~asl_ret']_vars
    /\ [][(ASLCalled /\ ~ASLAtOrBelowStop(asl', asl_in'.price))
            => asl'.trigger_time = None]_vars

\* C24: an AdaptiveStopLoss.update call made with a missing, zero or negative ATR
\* reading leaves current_stop_level unchanged and returns no trigger.
C24_BadAtrIsNoOp ==
    [][(ASLCalled /\ asl_in'.atr <= 0) =>
         /\ asl'.dist_num = asl.dist_num
         /\ asl'.dist_den = asl.dist_den
         /\ ~asl_ret']_vars

(***************************************************************************)
(* The sizing of close_position on its own                                 *)
(***************************************************************************)

MaxHeld == 5
MaxSellPrice == 4
MinValues == {0, 1, 2, 5, 10}

CloseSizeStep ==
    /\ \E q \in 0..MaxHeld, p \in 0..MaxSellPrice, m \in MinValues :
         sell_size' = [q |-> q, p |-> p, min |-> m, r |-> SellQuantity(q, p, m)]
    /\ UNCHANGED <<stack, locks, lom, exchange, expired, watcher, pf, pending_orders, md,
                   cfg, observe, boot, gate, tb_call, io>>
    /\ UNCHANGED histVars /\ UNCHANGED engineVars

NextSize == CloseSizeStep

SpecSize == Init /\ [][NextSize]_vars

\* The notional of the last sizing is below the minimum order value.
BelowMinimum ==
    /\ sell_size.p > 0
    /\ sell_size.q * sell_size.p < MinOrderValue(sell_size.min)

ExchangeMaxRetries == 2

\* The attempts of one call are counted up to this bound.
MaxIoAttempts == 4
MaxDriverTicks == 2

\* The cycles and the calls they make: the entry scan reads the ATR and the
\* balance, the position check reads the ATR (AdaptiveStopLoss.update) and submits
\* sell orders, an order submission goes to the exchange.
IoCalls ==
    { <<"scan", "atr">>, <<"scan", "exchange">>, <<"check", "atr">>,
      <<"check", "exchange">>, <<"submit", "exchange">> }

\* What the provider does to a request: it answers, it answers with a status other
\* than 200 or the request raises a RequestException / the call raises ("down"), or
\* the answer cannot be read ("garbled").
Providers == {"up", "down", "garbled"}

IoRest ==
    /\ UNCHANGED <<stack, locks, lom, exchange, expired, watcher, pf, pending_orders, md,
                   cfg, observe, boot, gate, tb_call, sell_size>>
    /\ UNCHANGED histVars /\ UNCHANGED engineVars

\* A cycle reaches a provider call.
IoStart ==
    /\ io.pc = "idle"
    /\ \E c \in IoCalls :
         io' = [io EXCEPT !.caller = c[1], !.kind = c[2], !.pc = "request", !.attempts = 0]
    /\ IoRest

\* get_atr, one turn of `while True`: the value is returned; a status other than
\* 200 and a RequestException `continue`; any other exception returns 0.0.
AtrAttempt ==
    /\ io.pc = "request" /\ io.kind = "atr"
    /\ io' = IF io.provider = "down"
             THEN [io EXCEPT !.attempts = IF @ < MaxIoAttempts THEN @ + 1 ELSE @]
             ELSE [io EXCEPT !.pc = "done"]
    /\ IoRest

\* retry_operation, one turn of `for attempt in range(max_retries)`: the result is
\* returned, or the exception is logged and, on the last attempt, raised.
ExchangeAttempt ==
    /\ io.pc = "request" /\ io.kind = "exchange"
    /\ io' = IF io.provider = "up"
             THEN [io EXCEPT !.pc = "done"]
             ELSE IF io.attempts + 1 < ExchangeMaxRetries
                  THEN [io EXCEPT !.attempts = @ + 1]
                  ELSE [io EXCEPT !.attempts = @ + 1, !.pc = "done"]
    /\ IoRest

\* The call has returned or raised: the cycle goes on and ends.
IoFinish ==
    /\ io.pc = "done"
    /\ io' = [io EXCEPT !.pc = "idle", !.caller = "none", !.kind = "none", !.attempts = 0]
    /\ IoRest

ProviderChange ==
    /\ \E p \in Providers \ {io.provider} : io' = [io EXCEPT !.provider = p]
    /\ IoRest

\* Another periodic driver runs: the event loop must not be inside the synchronous
\* get_atr.
DriverTick ==
    /\ ~(io.pc = "request" /\ io.kind = "atr")
    /\ io.ticks < MaxDriverTicks
    /\ io' = [io EXCEPT !.ticks = @ + 1]
    /\ IoRest

NextIo == IoStart \/ AtrAttempt \/ ExchangeAttempt \/ IoFinish \/ ProviderChange \/ DriverTick

\* Every attempt that is due is made; nothing is assumed of the provider.
SpecIo ==
    /\ Init /\ [][NextIo]_vars
    /\ WF_vars(AtrAttempt) /\ WF_vars(ExchangeAttempt) /\ WF_vars(IoFinish)

\* C26: every provider call made inside an entry scan, a position check or an order
\* submission gives up after a bounded number of attempts while the provider keeps
\* failing: a call that has started eventually returns or raises, so the calling
\* cycle ends.
C26_EveryCallGivesUp == (io.pc = "request") ~> (io.pc = "done")

(***************************************************************************)
(* How open_position ends (position_manager.py)                            *)
(***************************************************************************)

\* The bot recording how each open_position call ends.
InitOpen == InitTSLIdle /\ InitASLIdle /\ InitSysObs(ConfigDefault, TRUE) /\ boot = Started

\* The buy side on one symbol with fills, timeouts and cancellations, every
\* open_position call observed.
SpecOpen == InitOpen /\ [][NextCancel]_vars

\* An open_position call has ended without placing an order.
EndedWithoutOrder == open_post.sym # NoSym /\ open_post.result # "true"

\* C27: whenever an open_position call ends without placing an order it has returned
\* False, it has not written positions on its way out and pending_orders holds no
\* entry for the symbol; no open_position call ends by raising an exception.
C27_FailedOpenIsClean ==
    /\ EndedWithoutOrder =>
          /\ open_post.result = "false"
          /\ ~open_post.moved
          /\ ~open_post.pending
    /\ open_post.result # "exc"

(***************************************************************************)
(* The tier tables at start-up (analyzer.py, trailing_stop.py)             *)
(***************************************************************************)

\* MarketAnalyzer._validate_trailing_buy_levels: TRUE when it returns, FALSE when it
\* raises ValueError.
ValidateTrailingBuyLevels(levels) ==
    /\ levels # <<>>
    /\ \A i \in DOMAIN levels : ~(levels[i].trigger > levels[i].stop)

\* Tables TRAILING_BUY_RSI_LEVELS may be set to: the configured one, one tier, an
\* empty table, and one with trigger > stop.
EntryTables ==
    {TRAILING_BUY_RSI_LEVELS_NEUTRAL, GateConfig.levels, <<>>,
     << [trigger |-> 25, stop |-> 30], [trigger |-> 30, stop |-> 25] >>}

\* Tables a TrailingStopLoss may be given: the configured one, one tier, and one tier
\* with stop > trigger.
ExitTables ==
    {TRAILING_STOP_LEVELS, SingleTier(TRUE),
     << [trigger |-> 12, stop |-> 20, immediate |-> TRUE] >>}

\* The process before MarketAnalyzer() is built, under any of the entry tables.
InitLoad ==
    /\ InitTSLIdle /\ InitASLIdle
    /\ \E lv \in EntryTables : InitSysObs([ConfigDefault EXCEPT !.levels = lv], FALSE)
    /\ boot = [analyzer |-> "none", exit |-> "none"]

\* MarketAnalyzer(): the table is validated first; ValueError aborts the start-up.
AnalyzerInit ==
    /\ boot.analyzer = "none"
    /\ boot' = [boot EXCEPT !.analyzer =
                  IF ValidateTrailingBuyLevels(cfg.levels) THEN "up" ELSE "error"]
    /\ UNCHANGED <<stack, locks, lom, exchange, expired, watcher, pf, pending_orders, md,
                   cfg, observe, gate, tb_call, sell_size, io>>
    /\ UNCHANGED histVars /\ UNCHANGED engineVars

\* The running bot builds the detector of a symbol and feeds it.
DetectorBuild == boot.analyzer = "up" /\ TBCreateStep
DetectorUpdate == boot.analyzer = "up" /\ TBUpdateStep

\* TrailingStopLoss(entry_price, levels_config): the tiers are loaded as given.
ExitBuild ==
    /\ boot.analyzer = "up"
    /\ boot.exit = "none"
    /\ \E lv \in ExitTables : tsl' = TSLNewLevels(10000, lv)
    /\ boot' = [boot EXCEPT !.exit = "built"]
    /\ UNCHANGED <<tsl_stop, tsl_ret, tsl_price>>
    /\ UNCHANGED varsASL
    /\ UNCHANGED <<stack, locks, lom, exchange, expired, watcher, pf, pending_orders, md,
                   cfg, observe, gate, tb_call, sell_size, io>>
    /\ UNCHANGED histVars

NextLoad == AnalyzerInit \/ DetectorBuild \/ DetectorUpdate \/ ExitBuild

SpecLoad == InitLoad /\ [][NextLoad]_vars

\* An entry table as the specification wants it: not empty, trigger <= stop in each tier.
WellFormedEntry(levels) ==
    levels # <<>> /\ \A i \in DOMAIN levels : levels[i].trigger <= levels[i].stop

\* An exit table as the specification wants it: stop <= trigger in each tier.
WellFormedExit(levels) == \A i \in DOMAIN levels : levels[i].stop <= levels[i].trigger

\* C28: a malformed tier table is rejected before use: MarketAnalyzer and a detector
\* exist only over a well-formed entry table, and a TrailingStopLoss only over a
\* well-formed exit table.
C28_MalformedTableRejected ==
    /\ (boot.analyzer = "up" \/ md[1].tb.kind = "obj") => WellFormedEntry(cfg.levels)
    /\ boot.analyzer = "error" => ~WellFormedEntry(cfg.levels)
    /\ boot.exit = "built" => WellFormedExit(tsl.levels)

\* An update() call with a missing RSI or a price <= 0 is made in this step.
InvalidUpdateCalled ==
    /\ tb_call'.op = "update"
    /\ tb_call'.rsi = None \/ tb_call'.price <= 0

\* C29: update() called with a missing RSI or a price <= 0 returns nothing and leaves
\* lowest_rsi, current_level, the lock flag and the signal flag as they were.
C29_InvalidUpdateIsNoOp ==
    [][InvalidUpdateCalled =>
          /\ ~tb_call'.ret
          /\ md'[1].tb.lowest_rsi = md[1].tb.lowest_rsi
          /\ md'[1].tb.current_level = md[1].tb.current_level
          /\ md'[1].tb.lock = md[1].tb.lock
          /\ md'[1].tb.emitted = md[1].tb.emitted]_vars

\* C29 witness: an update() with a valid RSI that would lower the minimum, and a price
\* of 0, has just been made on a locked detector that has emitted its signal.
C29_Witness ==
    /\ tb_call.op = "update"
    /\ tb_call.rsi # None /\ tb_call.price <= 0
    /\ tb_call.rsi < md[1].tb.lowest_rsi
    /\ md[1].tb.lowest_rsi < LowestRsiInit
    /\ md[1].tb.lock /\ md[1].tb.emitted

\* An update() call with an RSI and a price > 0 is made in this step.
ValidUpdateCalled ==
    /\ tb_call'.op = "update"
    /\ tb_call'.rsi # None /\ tb_call'.price > 0

\* This step is a full reset: a reset() of an unlocked detector.
FullResetCalled == tb_call'.op = "reset" /\ ~md[1].tb.lock

LowestOf(S) == CHOOSE m \in S : \A y \in S : m <= y

\* C30: between two full resets lowest_rsi never rises; after every valid update()
\* it is the lowest of 100 and the values fed since the last full reset; a value equal
\* to the current minimum leaves it as it is.
C30_LowestRsiIsRunningMinimum ==
    /\ [][(md[1].tb.kind = "obj" /\ ~FullResetCalled) =>
             md'[1].tb.lowest_rsi <= md[1].tb.lowest_rsi]_vars
    /\ [][ValidUpdateCalled =>
             md'[1].tb.lowest_rsi = LowestOf({LowestRsiInit} \cup tb_call'.fed)]_vars
    /\ [][(ValidUpdateCalled /\ tb_call'.rsi = md[1].tb.lowest_rsi) =>
             md'[1].tb.lowest_rsi = md[1].tb.lowest_rsi]_vars

\* C30 witness: three values have been fed since the last full reset, the last one
\* above the lowest, which the detector still holds.
C30_Witness ==
    /\ tb_call.op = "update"
    /\ tb_call.rsi # None /\ tb_call.price > 0
    /\ Cardinality(tb_call.fed) >= 3
    /\ tb_call.rsi > md[1].tb.lowest_rsi
    /\ md[1].tb.lowest_rsi = LowestOf(tb_call.fed)

(***************************************************************************)
(* Termination of open_position (position_manager.py)                      *)
(***************************************************************************)

\* A step of task t: the call it awaits returns, or the lock it waits for is free.
TaskRun(t) ==
    \/ CoFetch(t) \/ CoCancel(t) \/ CfFetch(t)
    \/ ScAn(t, RsiInputs) \/ ScInd(t) \/ ScStoch(t) \/ ScCan(t)
    \/ OpBal(t) \/ OpCreate(t, MaxCancelOrders) \/ BtPrice(t)
    \/ OpWait(t) \/ CaFetch(t) \/ CaCancel(t)

\* The buy side on one symbol where every exchange call returns and every task that
\* can run is run: the event loop resumes each ready task.
SpecLive == Init /\ [][NextCancel]_vars /\ \A t \in Tasks : WF_vars(TaskRun(t))

\* The tasks that call open_position: the market-analysis cycle, and the poll loop of
\* the buy side through the timeout callback.
OpenCallers == {"scan", "bpoll"}

\* Task t waits for a symbol lock that it holds itself.
WaitsForOwnLock(t) ==
    /\ Parked(t, "op_wait")
    /\ locks[Head(stack[t]).sym] = t

\* C31: every open_position call eventually returns and releases the symbol's lock:
\* a task inside open_position gets out of it, a held lock becomes free, and no task
\* waits for a lock it holds (a timeout callback run inside the locked section).
C31_OpenPositionReturns ==
    /\ \A t \in OpenCallers :
          OpenInProgress(t, 1) ~> (~OpenInProgress(t, 1) /\ locks[1] # t)
    /\ [](\A t \in Tasks : ~WaitsForOwnLock(t))

(***************************************************************************)
(* Delivery of the timeout callback (limit_order_manager.py)               *)
(***************************************************************************)

\* The order is filled or still open at the exchange.
FilledOrLive(o) == exchange[o].status \in {"closed", "open"}

\* The timeout callback of order o is invoked in this step.
TimeoutDelivered(o) == cb_timeout'[o] > cb_timeout[o]

\* Two buy orders of one symbol, the later one a retry, both filled or open.
TwoLiveBuyOrders ==
    \E o1, o2 \in 1..Len(exchange) :
        /\ o1 < o2
        /\ exchange[o1].side = "buy" /\ exchange[o2].side = "buy"
        /\ exchange[o1].sym = exchange[o2].sym
        /\ exchange[o2].attempt > 1
        /\ FilledOrLive(o1) /\ FilledOrLive(o2)

\* C32: the timeout callback of an order is invoked only when the order is neither
\* filled nor open at the exchange, and a symbol never has two buy orders, the later
\* one a retry, that are both filled or open at the exchange.
C32_TimeoutOnlyForDeadOrders ==
    /\ [][\A o \in OrderIds :
            (o \in 1..Len(exchange) /\ TimeoutDelivered(o)) =>
                exchange'[o].status = "canceled"]_vars
    /\ []~TwoLiveBuyOrders

(***************************************************************************)
(* Attempt numbers of the buy orders (position_manager.py)                 *)
(***************************************************************************)

\* The buy orders of the symbol submitted before order o.
EarlierBuys(o) ==
    {p \in 1..(o - 1) : exchange[p].side = "buy" /\ exchange[p].sym = exchange[o].sym}

\* The order follows the numbering: it opens an attempt with number 1, or carries the
\* number after that of the buy order submitted just before it for the symbol.
Numbered(o) ==
    \/ exchange[o].attempt = 1
    \/ /\ EarlierBuys(o) # {}
       /\ LET p == CHOOSE q \in EarlierBuys(o) : \A r \in EarlierBuys(o) : r <= q
          IN exchange[o].attempt = exchange[p].attempt + 1

\* Task t submits a buy order in this step, from a first (non-retry) open_position.
FirstSubmits(t) ==
    /\ Parked(t, "op_create")
    /\ ~Head(stack[t]).retry
    /\ stack'[t] # stack[t]
    /\ Len(exchange') = Len(exchange) + 1

\* The retries of the symbol are exhausted in this step: a timeout callback runs with
\* the counter at the maximum of _handle_order_timeout.
Exhausted(sym) ==
    /\ lom["buy"].order_attempts[sym] >= BuyTimeoutMaxAttempts
    /\ \E o \in 1..Len(exchange) :
          exchange[o].side = "buy" /\ exchange[o].sym = sym /\ TimeoutDelivered(o)

\* C33: within one open attempt the k-th buy order carries attempt number k, a first
\* (non-retry) open_position restarts the numbering at 1, and after the attempts are
\* exhausted get_buy_attempt_count(symbol) is 0.
C33_AttemptNumbering ==
    /\ [](\A o \in 1..Len(exchange) : exchange[o].side = "buy" => Numbered(o))
    /\ [][\A t \in Tasks : FirstSubmits(t) => exchange'[Len(exchange')].attempt = 1]_vars
    /\ [][\A sym \in CRYPTO_LIST : Exhausted(sym) => lom'["buy"].order_attempts[sym] = 0]_vars

\* C33 witness: five buy orders of the symbol numbered 1 to 5 have timed out one after
\* the other, the last timeout has exhausted the retries and the counter is back at 0.
C33_Witness ==
    /\ Len(exchange) = BuyTimeoutMaxAttempts
    /\ \A o \in 1..Len(exchange) :
          exchange[o].side = "buy" /\ exchange[o].sym = 1 /\ exchange[o].attempt = o
    /\ cb_timeout[BuyTimeoutMaxAttempts] = 1
    /\ lom["buy"].order_attempts[1] = 0

(***************************************************************************)
(* The tier the detector selects (trailing_buy.py)                         *)
(***************************************************************************)

\* The triggers of the table in ascending order.
AscendingTriggers == SortedSeq(TBTriggers)

\* The tier, named by its trigger, whose range [trigger, next tier's trigger) holds v;
\* the range of the last tier is open-ended.  NoTrig when no range holds v.
RangeTier(v) ==
    LET q == AscendingTriggers
        holds(i) == q[i] <= v /\ (i < Len(q) => v < q[i + 1])
    IN IF \E i \in 1..Len(q) : holds(i)
       THEN q[CHOOSE i \in 1..Len(q) : holds(i)]
       ELSE NoTrig

WindowTiers(t) == {i \in 1..Len(t.levels) : InWindow(t, i, t.highest_profit)}

\* The tier with the highest trigger.
TopTier(t) ==
    CHOOSE i \in 1..Len(t.levels) : \A j \in 1..Len(t.levels) :
        t.levels[j].trigger <= t.levels[i].trigger

\* C35: the tier selected is the one whose window [stop, trigger) holds the maximum
\* profit achieved, the topmost tier once that profit is at or above its trigger; for
\* the configured table at most one window holds any value, so that the selection does
\* not depend on the order of the rows.
C35_TierFromWindow ==
    /\ Cardinality(WindowTiers(tsl)) <= 1
    /\ tsl.current_level # NoLevel =>
          IF tsl.highest_profit >= tsl.levels[TopTier(tsl)].trigger * tsl.entry_price
          THEN tsl.current_level = TopTier(tsl)
          ELSE WindowTiers(tsl) = {tsl.current_level}

(***************************************************************************)
(* The tier tables held by the instances (trailing_buy.py, trailing_stop.py) *)
(***************************************************************************)

\* self.levels of a TrailingBuyRsi: _update_levels copies the configured table row by
\* row, in the order of the file.
TBLevels == cfg.levels

\* The table is in ascending order of trigger.
Ascending(levels) ==
    \A i \in 1..(Len(levels) - 1) : levels[i].trigger <= levels[i + 1].trigger

\* C36: the tier table of a detector or exit engine never changes once the instance
\* is built, and it is held in ascending order of trigger from construction on.
C36_TablesFixedAndAscending ==
    /\ [](md[1].tb.kind = "obj" => Ascending(TBLevels))
    /\ [](boot.exit = "built" => Ascending(tsl.levels))
    /\ [][boot.exit = "built" => tsl'.levels = tsl.levels]_vars
    /\ [][md[1].tb.kind = "obj" => TBLevels' = TBLevels]_vars

(***************************************************************************)
(* The signals of the detector (trailing_buy.py)                           *)
(***************************************************************************)

\* An update() call is made in this step.
UpdateCalled == tb_call'.op = "update"

\* C37: once update() has emitted a signal (_signal_emitted set), no later update()
\* call returns a signal until the detector has been fully reset.
C37_NoSecondSignal ==
    [][(md[1].tb.kind = "obj" /\ md[1].tb.emitted /\ UpdateCalled) => ~tb_call'.ret]_vars

\* The buy level the configured table gives to the tier of trigger trig.
BuyLevelOf(trig) ==
    LET row == CHOOSE r \in {cfg.levels[k] : k \in 1..Len(cfg.levels)} : r.trigger = trig
    IN row.stop

\* update() returns the price in this step.
SignalReturned == UpdateCalled /\ tb_call'.ret

TimeoutCloseReady(t) ==
    /\ Parked(t, "cp_bal")
    /\ Len(stack[t]) >= 2 /\ stack[t][2].pc = "st_ret"
    /\ pf.positions[Head(stack[t]).sym] # 0

\* close_position of task t can go on to create_limit_sell_order.
CanSubmit(t) ==
    \E y \in CpBalStep(Here(t)) : y.k # <<>> /\ Head(y.k).pc = "cp_create"

SellOrders == {o \in Created : exchange[o].side = "sell"}

\* C39: after every sell timeout for a symbol that still has a position and an
\* available price a new sell order is submitted (the close_position called by the
\* timeout callback goes on to create_limit_sell_order unless the position is too
\* small to sell), and every sell order carries an attempt number within 1..10.
C39_SellRetriedWithinTen ==
    /\ \A t \in Tasks : TimeoutCloseReady(t) => CanSubmit(t)
    /\ \A o \in SellOrders : exchange[o].attempt \in 1..SellTimeoutMaxAttempts
====
